---- MODULE Spec2Model ----
(***************************************************************************)
(* The follow engine of tail (src/src/tail.c): the driver in main, the     *)
(* per-target File_spec records, recheck, the polling loop tail_forever    *)
(* and the inotify loop tail_forever_inotify, run against a small file     *)
(* system, descriptor table and inotify kernel model that change           *)
(* concurrently with the program.                                          *)
(***************************************************************************)
EXTENDS Integers, Sequences, FiniteSets, TLC

(***************************************************************************)
(* Bounds of the model.                                                    *)
(***************************************************************************)
\* Number of operations concurrent processes perform on the file system.
MaxEnvOps == 2
\* Stand-in for the size of dump_remainder's buffer, scaled to the file
\* lengths of the model: one read returns at most this many bytes.
BufSize == 2
\* Value of --max-unchanged-stats used by the runs of the model.
MaxUnchanged == 1
\* Number of bytes the initial tail prints (tail -c N).
NUnits == 1
\* Number of watch descriptors the inotify instance hands out before
\* inotify_add_watch fails with ENOSPC (fs.inotify.max_user_watches).
MaxWatches == 4

(***************************************************************************)
(* Program constants.                                                      *)
(***************************************************************************)
STDIN_FILENO == 0
EPERM == 1
ENOENT == 2
ESRCH == 3
EBADF == 9
EMFILE == 24
ENOSPC == 28

Names == {"a", "b"}                  \* names in the watched directory
FdSet == {0, 3, 4, 5}               \* descriptor numbers of the process
Kinds == {"REG", "FIFO", "CHR", "BLK"}

S_ISREG(mode) == mode = "REG"
S_ISFIFO(mode) == mode = "FIFO"
IS_TAILABLE_FILE_TYPE(mode) == mode \in {"REG", "FIFO", "SOCK", "CHR"}

Min(x, y) == IF x < y THEN x ELSE y

VARIABLES
  cfg,              \* the options: immutable after start
  disable_inotify,  \* global of the same name
  dir,              \* file system: name -> [ino, lnk]; ino 0: no such file
  dirOk,            \* the directory holding the names exists
  inode,            \* file system: sequence of inodes [kind, remote, data, mtime, links]
  nbytes,           \* number of bytes ever written (each byte is distinct)
  pidst,            \* state of the watched writer process
  reader,           \* the reader of standard output is alive
  budget,           \* environment operations left
  F,                \* the File_spec array
  fdt,              \* descriptor table: fd -> [ino, off, nb]; ino 0: closed
  ok,               \* main's ok flag
  pc,               \* position of the program
  idx,              \* loop index i of the running loop
  blocking,         \* tail_forever: blocking
  last,             \* tail_forever: last
  writers_dead,     \* tail_forever / tail_forever_inotify: writers_dead
  any_input,        \* tail_forever: any_input
  kw,               \* inotify kernel: sequence wd -> watched inode (0: removed)
  evq,              \* inotify kernel: queue of events
  ht,               \* wd_to_name: set of targets in the hash table
  prev_fspec,       \* tail_forever_inotify: prev_fspec
  tailed_but_unwatchable,  \* tail_forever_inotify: local of the same name
  found_watchable_file,    \* tail_forever_inotify: local of the same name
  exitst,           \* exit status once pc = "exit"
  trace,            \* what the last step called and wrote, in order
  shown,            \* the target whose header or data was written last
  calc              \* one call of a function on its own: arguments and result

envvars == <<dir, dirOk, inode, nbytes, pidst, reader, budget>>
pollvars == <<blocking, last, writers_dead, any_input>>
inolocals == <<prev_fspec, tailed_but_unwatchable, found_watchable_file>>
vars == <<cfg, disable_inotify, dir, dirOk, inode, nbytes, pidst, reader, budget,
          F, fdt, ok, pc, idx, blocking, last, writers_dead, any_input,
          kw, evq, ht, prev_fspec, tailed_but_unwatchable, found_watchable_file,
          exitst, trace, shown, calc>>

n_files == Len(F)
follow_mode == cfg.follow_mode
reopen_inaccessible_files == cfg.retry
nbpids == cfg.nbpids
print_headers == cfg.print_headers
monitor_output == cfg.monitor_output

DirIno == 1        \* inode of the directory holding the names
StdinIno == 2      \* inode standard input is open on

(***************************************************************************)
(* The part of the state the program's functions thread through.           *)
(***************************************************************************)
M == [F |-> F, fdt |-> fdt, kw |-> kw, evq |-> evq, ht |-> ht,
      trace |-> <<>>, stop |-> "no"]

Out(m, e) == [m EXCEPT !.trace = Append(@, e)]
Diag(m, i, msg) == Out(m, [t |-> "diag", i |-> i, msg |-> msg])
Stop(m, how) == IF m.stop = "no" THEN [m EXCEPT !.stop = how] ELSE m

(***************************************************************************)
(* Kernel: file system, descriptors, inotify.                              *)
(***************************************************************************)
\* The watch descriptor on inode n, or 0.
WdOf(watches, n) ==
  IF \E w \in 1..Len(watches) : watches[w] = n
  THEN CHOOSE w \in 1..Len(watches) : watches[w] = n
  ELSE 0

\* Queue an event; the kernel drops an event equal to the last one queued.
Enqueue(q, e) == IF Len(q) > 0 /\ q[Len(q)] = e THEN q ELSE Append(q, e)

Event(w, mask, name) == [wd |-> w, mask |-> mask, name |-> name]

\* An inode goes away when it has no link and no open descriptor: a watch on
\* it reports IN_DELETE_SELF and is removed by the kernel.
Gone(table, n) == inode[n].links = 0 /\ \A d \in FdSet : table[d].ino # n

Reap(m, n) ==
  LET w == WdOf(m.kw, n) IN
  IF n # 0 /\ w # 0 /\ Gone(m.fdt, n)
  THEN [m EXCEPT !.kw[w] = 0, !.evq = Enqueue(@, Event(w, "DELETE_SELF", ""))]
  ELSE m

\* open (name, O_RDONLY): the lowest free descriptor, at offset 0.
FreeFds(table) == {d \in FdSet \ {STDIN_FILENO} : table[d].ino = 0}
Closed == [ino |-> 0, off |-> 0, nb |-> FALSE, lnk |-> FALSE]
open(table, name, nonblock) ==
  IF dir[name].ino = 0 THEN [fd |-> -1, errno |-> ENOENT, fdt |-> table]
  ELSE IF FreeFds(table) = {} THEN [fd |-> -1, errno |-> EMFILE, fdt |-> table]
  ELSE LET d == CHOOSE x \in FreeFds(table) : \A y \in FreeFds(table) : x <= y
       IN [fd |-> d, errno |-> 0,
           fdt |-> [table EXCEPT ![d] = [ino |-> dir[name].ino, off |-> 0,
                                         nb |-> nonblock,
                                         lnk |-> dir[name].lnk]]]

IsOpen(table, fd) == fd \in FdSet /\ table[fd].ino # 0

\* fremote: the file system of the descriptor is not known to be local.
fremote(table, fd) == inode[table[fd].ino].remote

\* inotify_add_watch on a path: the watch of the inode the path names.
\* Returns [wd, errno, kw].
inotify_add_watch(watches, n) ==
  IF n = 0 THEN [wd |-> -1, errno |-> ENOENT, kw |-> watches]
  ELSE IF WdOf(watches, n) # 0
       THEN [wd |-> WdOf(watches, n), errno |-> 0, kw |-> watches]
  ELSE IF Len(watches) >= MaxWatches
       THEN [wd |-> -1, errno |-> ENOSPC, kw |-> watches]
  ELSE [wd |-> Len(watches) + 1, errno |-> 0, kw |-> Append(watches, n)]

inotify_rm_watch(watches, w) ==
  IF w \in 1..Len(watches) THEN [watches EXCEPT ![w] = 0] ELSE watches

(***************************************************************************)
(* tail.c: helpers.                                                        *)
(***************************************************************************)
valid_file_spec(f) == (f.fd = -1) # (f.errnum = 0)

\* close_fd: close FD unless it is -1 or standard input; diagnose a failure.
close_fd(m, fd, i) ==
  IF fd = -1 \/ fd = STDIN_FILENO THEN m
  ELSE IF ~IsOpen(m.fdt, fd) THEN Diag(m, i, "closing")
  ELSE LET n == m.fdt[fd].ino
           m1 == [m EXCEPT !.fdt[fd] = Closed]
       IN Reap(m1, n)

record_open_fd(f, fd, size, st, blk) ==
  [f EXCEPT !.fd = fd, !.size = size, !.mtime = st.mtime, !.dev = st.dev,
            !.ino = st.ino, !.mode = st.kind, !.blocking = blk,
            !.n_unchanged_stats = 0, !.ignore = FALSE]

\* fstat on an open descriptor.
fstat(table, fd) ==
  LET n == table[fd].ino IN
  [ino |-> n, dev |-> IF inode[n].remote THEN 2 ELSE 1, kind |-> inode[n].kind,
   size |-> Len(inode[n].data), mtime |-> inode[n].mtime]

\* The bytes one call of dump_remainder reads: to end of file (COPY_TO_EOF),
\* one read (COPY_A_BUFFER), or at most n_bytes.
COPY_TO_EOF == -1
COPY_A_BUFFER == -2
ReadCount(avail, n_bytes) ==
  IF n_bytes = COPY_TO_EOF THEN avail
  ELSE IF n_bytes = COPY_A_BUFFER THEN Min(avail, BufSize)
  ELSE Min(avail, n_bytes)

\* dump_remainder: returns [m, n] with n the number of bytes read.
DataLeft(table, fd) ==
  IF table[fd].off < Len(inode[table[fd].ino].data)
  THEN Len(inode[table[fd].ino].data) - table[fd].off
  ELSE 0

\* The writes of dump_remainder after reading k bytes of inode n at off.
dump_remainder_write(m, want_header, i, fd, n, off, k) ==
  [m |-> [(IF k > 0
           THEN Out(IF want_header THEN Out(m, [t |-> "hdr", i |-> i]) ELSE m,
                    [t |-> "data", i |-> i, ino |-> n, off |-> off,
                     bytes |-> SubSeq(inode[n].data, off + 1, off + k)])
           ELSE m)
            EXCEPT !.fdt[fd].off = off + k],
   n |-> k]

dump_remainder(m, want_header, i, fd, n_bytes) ==
  IF ~IsOpen(m.fdt, fd)
  THEN [m |-> Stop(Diag(m, i, "error reading"), "failure"), n |-> 0]
  ELSE dump_remainder_write(m, want_header, i, fd, m.fdt[fd].ino,
                            m.fdt[fd].off,
                            ReadCount(DataLeft(m.fdt, fd), n_bytes))

(***************************************************************************)
(* recheck: open/fstat F[i].name and handle changes.                       *)
(***************************************************************************)
B2I(b) == IF b THEN 1 ELSE 0

\* lstat (name) succeeds and reports a symbolic link.
IsSymlink(name) == name \in Names /\ dir[name].lnk

NoStats == [ino |-> 0, dev |-> 0, kind |-> "NONE", size |-> 0, mtime |-> 0]

\* open (name), or standard input.  Returns [fd, errno, fdt].
open_or_stdin(table, name, nonblock) ==
  IF name = "-" THEN [fd |-> STDIN_FILENO, errno |-> 0, fdt |-> table]
  ELSE open(table, name, nonblock)

\* recheck that gives up a symbolic link when polling too.
recheck_branch_any_backend(f, o, kind) ==
  IF IsSymlink(f.name) THEN "symlink"
  ELSE IF o.fd = -1 THEN "failed"
  ELSE IF ~IS_TAILABLE_FILE_TYPE(kind) THEN "untailable"
  ELSE IF fremote(o.fdt, o.fd) /\ ~disable_inotify THEN "remote"
  ELSE "ok"

\* recheck: which arm of the first if-chain is taken.
recheck_branch(f, o, kind) ==
  IF ~disable_inotify /\ IsSymlink(f.name) THEN "symlink"
  ELSE IF o.fd = -1 THEN "failed"
  ELSE IF ~IS_TAILABLE_FILE_TYPE(kind) THEN "untailable"
  ELSE IF fremote(o.fdt, o.fd) /\ ~disable_inotify THEN "remote"
  ELSE "ok"

\* recheck: the File_spec after the first if-chain.
recheck_spec(f, o, branch, tailable) ==
  CASE branch = "symlink" ->
         [f EXCEPT !.tailable = tailable, !.errnum = -1, !.ignore = TRUE]
    [] branch = "failed" ->
         [f EXCEPT !.tailable = tailable, !.errnum = o.errno]
    [] branch = "untailable" ->
         [f EXCEPT !.tailable = FALSE, !.errnum = -1,
                   !.ignore = ~(reopen_inaccessible_files
                                /\ follow_mode = "name")]
    [] branch = "remote" ->
         [f EXCEPT !.tailable = tailable, !.errnum = -1, !.ignore = TRUE,
                   !.remote = TRUE]
    [] OTHER ->
         [f EXCEPT !.tailable = tailable, !.errnum = 0,
                   !.remote = fremote(o.fdt, o.fd)]

\* recheck: the diagnostics of the first if-chain.
recheck_diag(m, i, f, o, branch, tailable) ==
  CASE branch = "symlink" -> Diag(m, i, "replaced with symlink")
    [] branch = "failed" ->
         IF ~tailable
         THEN (IF f.tailable THEN Diag(m, i, "become inaccessible") ELSE m)
         ELSE IF f.errnum # o.errno THEN Diag(m, i, "errno") ELSE m
    [] branch = "untailable" ->
         IF f.tailable \/ f.errnum # -1
         THEN Diag(m, i, "replaced with untailable file") ELSE m
    [] branch = "remote" -> Diag(m, i, "replaced with remote file")
    [] OTHER -> m

\* recheck that takes a file of another (dev, ino) for the one it holds.
recheck_how_same_file(f, new_stats, branch) ==
  IF branch # "ok" THEN "closed"
  ELSE IF f.errnum # 0 /\ f.errnum # ENOENT THEN "accessible"
  ELSE IF f.fd = -1 THEN "appeared"
  ELSE "same"

\* recheck: which arm of the second if-chain is taken.
recheck_how(f, new_stats, branch) ==
  IF branch # "ok" THEN "closed"
  ELSE IF f.errnum # 0 /\ f.errnum # ENOENT THEN "accessible"
  ELSE IF f.fd = -1 THEN "appeared"
  ELSE IF f.ino # new_stats.ino \/ f.dev # new_stats.dev THEN "replaced"
  ELSE "same"

NewFile == {"accessible", "appeared", "replaced"}

\* recheck returns: what it leaves of target i.
recheck_done(m, i, how, held, fd) ==
  Out(m, [t |-> "rechecked", i |-> i, how |-> how, fd |-> m.F[i].fd,
          now |-> m.F[i],
          new_open |-> fd # held /\ fd # STDIN_FILENO /\ IsOpen(m.fdt, fd),
          size |-> m.F[i].size, ino |-> m.F[i].ino,
          ignore |-> m.F[i].ignore, errnum |-> m.F[i].errnum,
          open_ino |-> IF IsOpen(m.fdt, m.F[i].fd) THEN m.fdt[m.F[i].fd].ino
                       ELSE 0,
          off |-> IF IsOpen(m.fdt, m.F[i].fd) THEN m.fdt[m.F[i].fd].off
                  ELSE -1,
          held_open |-> IsOpen(m.fdt, held)])

\* recheck: record_open_fd and xlseek (fd, 0, SEEK_SET) on a regular file.
recheck_record(m, i, f2, fd, rewind, how, held) ==
  recheck_done(
    [(IF rewind /\ IsOpen(m.fdt, fd) THEN [m EXCEPT !.fdt[fd].off = 0] ELSE m)
       EXCEPT !.F[i] = f2],
    i, how, held, fd)

\* recheck: the second if-chain; f is the File_spec on entry, f1 after the
\* first if-chain.
recheck_adopt(m, i, blk, f, f1, fd, new_stats, how) ==
  recheck_record(
    CASE how = "closed" -> close_fd(close_fd(m, fd, i), f.fd, i)
      [] how = "accessible" ->
           \* affirm (f->fd == -1)
           IF f.fd = -1 THEN Diag(m, i, "become accessible")
           ELSE Stop(m, "abort")
      [] how = "appeared" -> Diag(m, i, "appeared")
      [] how = "replaced" -> close_fd(Diag(m, i, "replaced"), f.fd, i)
      [] OTHER -> close_fd(m, fd, i),
    i,
    IF how = "closed" THEN [f1 EXCEPT !.fd = -1]
    ELSE IF how \in NewFile
    THEN record_open_fd(f1, fd, 0, new_stats,
                        IF f.name = "-" THEN -1 ELSE B2I(blk))
    ELSE f1,
    fd,
    how \in NewFile /\ S_ISREG(new_stats.kind),
    how, f.fd)

recheck_chain(m, i, blk, f, o, new_stats, branch, tailable) ==
  recheck_adopt(recheck_diag(m, i, f, o, branch, tailable), i, blk, f,
                recheck_spec(f, o, branch, tailable), o.fd, new_stats,
                recheck_how(f, new_stats, branch))

recheck_opened(m, i, blk, f, o, new_stats) ==
  \* affirm (valid_file_spec (f))
  IF ~valid_file_spec(f) THEN Stop(m, "abort")
  ELSE recheck_chain(m, i, blk, f, o, new_stats,
                     recheck_branch(f, o, new_stats.kind),
                     ~(reopen_inaccessible_files /\ o.fd = -1))

recheck_open(m, i, blk, f, o) ==
  recheck_opened(Out([m EXCEPT !.fdt = o.fdt],
                     [t |-> "recheck", i |-> i, held |-> f.fd,
                      errnum |-> f.errnum, ignore |-> f.ignore, was |-> f,
                      held_ino |-> IF IsOpen(m.fdt, f.fd)
                                   THEN m.fdt[f.fd].ino ELSE 0,
                      held_off |-> IF IsOpen(m.fdt, f.fd)
                                   THEN m.fdt[f.fd].off ELSE -1,
                      new_ino |-> IF o.fd # -1 THEN o.fdt[o.fd].ino ELSE 0,
                      lnk |-> IsSymlink(f.name)]),
                 i, blk, f, o,
                 IF o.fd # -1 THEN fstat(o.fdt, o.fd) ELSE NoStats)

recheck(m, i, blk) ==
  recheck_open(m, i, blk, m.F[i], open_or_stdin(m.fdt, m.F[i].name, ~blk))

(***************************************************************************)
(* tail_file in follow mode: open the name, print the last NUnits bytes,   *)
(* record the descriptor.  Returns [m, ok].                                *)
(***************************************************************************)
\* tail_bytes: the offset the output starts at.
TailStart(table, fd) ==
  IF Len(inode[table[fd].ino].data) > NUnits
  THEN Len(inode[table[fd].ino].data) - NUnits
  ELSE 0

\* tail_file that closes an untailable file and keeps its number in f->fd.
tail_file_stat_keeps_fd(m, i, f, fd, read_pos, stats) ==
  IF ~IS_TAILABLE_FILE_TYPE(stats.kind)
  THEN [m |-> close_fd(
                Diag([m EXCEPT !.F[i] =
                        [f EXCEPT !.tailable = FALSE, !.errnum = -1,
                                  !.ignore = ~reopen_inaccessible_files,
                                  !.fd = fd]], i, "cannot follow"),
                fd, i),
        ok |-> FALSE]
  ELSE [m |-> [m EXCEPT !.F[i] =
                 [record_open_fd([f EXCEPT !.tailable = TRUE, !.errnum = 0],
                                 fd, read_pos, stats,
                                 IF f.name = "-" THEN -1 ELSE 1)
                  EXCEPT !.remote = fremote(m.fdt, fd)]],
        ok |-> TRUE]

\* tail_file: after tail (), with read_pos the offset reached.
tail_file_stat(m, i, f, fd, read_pos, stats) ==
  IF ~IS_TAILABLE_FILE_TYPE(stats.kind)
  THEN [m |-> close_fd(
                Diag([m EXCEPT !.F[i] =
                        [f EXCEPT !.tailable = FALSE, !.errnum = -1,
                                  !.ignore = ~reopen_inaccessible_files,
                                  !.fd = -1]], i, "cannot follow"),
                fd, i),
        ok |-> FALSE]
  ELSE [m |-> [m EXCEPT !.F[i] =
                 [record_open_fd([f EXCEPT !.tailable = TRUE, !.errnum = 0],
                                 fd, read_pos, stats,
                                 IF f.name = "-" THEN -1 ELSE 1)
                  EXCEPT !.remote = fremote(m.fdt, fd)]],
        ok |-> TRUE]

tail_file_tail(i, f, fd, from, r) ==
  tail_file_stat(r.m, i, f, fd, from + r.n, fstat(r.m.fdt, fd))

tail_file_open(m, i, f, o) ==
  IF o.fd = -1
  THEN [m |-> Diag([m EXCEPT !.F[i] =
                      [f EXCEPT !.tailable = ~reopen_inaccessible_files,
                                !.fd = -1, !.errnum = o.errno,
                                !.ignore = ~reopen_inaccessible_files,
                                !.ino = 0, !.dev = 0]], i, "cannot open"),
        ok |-> FALSE]
  ELSE tail_file_tail(
         i, f, o.fd, TailStart(o.fdt, o.fd),
         dump_remainder(
           [(IF print_headers THEN Out(m, [t |-> "hdr", i |-> i]) ELSE m)
              EXCEPT !.fdt = [o.fdt EXCEPT ![o.fd].off = TailStart(o.fdt, o.fd)]],
           FALSE, i, o.fd, COPY_TO_EOF))

tail_file(m, i) ==
  tail_file_open(m, i, m.F[i],
                 open_or_stdin(m.fdt, m.F[i].name, nbpids # 0 \/ Len(m.F) > 1))

(***************************************************************************)
(* ignore_fifo_and_pipe: returns [F, n_viable].                            *)
(***************************************************************************)
is_a_fifo_or_pipe(f) ==
  f.name = "-" /\ ~f.ignore /\ 0 <= f.fd /\ S_ISFIFO(f.mode)

ignore_fifo_and_pipe(Fs) ==
  [F |-> [i \in 1..Len(Fs) |->
            IF is_a_fifo_or_pipe(Fs[i])
            THEN [Fs[i] EXCEPT !.fd = -1, !.ignore = TRUE]
            ELSE Fs[i]],
   n_viable |-> Cardinality({i \in 1..Len(Fs) : ~is_a_fifo_or_pipe(Fs[i])})]

(***************************************************************************)
(* The predicates over the File_spec array.                                *)
(***************************************************************************)
\* any_live_files that finds a live file whatever the targets are.
any_live_files_always(Fs) == TRUE

any_live_files(Fs) ==
  IF reopen_inaccessible_files /\ follow_mode = "name" THEN TRUE
  ELSE \E i \in 1..Len(Fs) :
         0 <= Fs[i].fd \/ (~Fs[i].ignore /\ reopen_inaccessible_files)

\* kill (pid, 0): the process exists and may be signalled, exists and may
\* not (EPERM), or does not exist (ESRCH).
kill(st) ==
  IF st = "alive" THEN [ret |-> 0, errno |-> 0]
  ELSE IF st = "eperm" THEN [ret |-> -1, errno |-> EPERM]
  ELSE [ret |-> -1, errno |-> ESRCH]

\* writers_are_dead: the loop over pids[i .. nbpids - 1].
RECURSIVE writers_are_dead_from(_, _)
writers_are_dead_from(pids, i) ==
  IF Len(pids) < i THEN TRUE
  ELSE IF kill(pids[i]).ret = 0 \/ kill(pids[i]).errno = EPERM THEN FALSE
  ELSE writers_are_dead_from(pids, i + 1)

\* writers_are_dead that looks at the first watched process only.
writers_are_dead_first(pids) ==
  IF Len(pids) = 0 THEN FALSE
  ELSE ~(kill(pids[1]).ret = 0 \/ kill(pids[1]).errno = EPERM)

\* writers_are_dead on the processes pids, given by their states.
writers_are_dead_of(pids) ==
  IF Len(pids) = 0 THEN FALSE
  ELSE writers_are_dead_from(pids, 1)

\* writers_are_dead that never finds the writers dead.
writers_are_dead_never == FALSE

\* The program run watches at most one process.
writers_are_dead ==
  writers_are_dead_of(IF nbpids = 0 THEN <<>> ELSE <<pidst>>)

any_remote_file(Fs) == \E i \in 1..Len(Fs) : 0 <= Fs[i].fd /\ Fs[i].remote
any_non_remote_file(Fs) == \E i \in 1..Len(Fs) : 0 <= Fs[i].fd /\ ~Fs[i].remote
any_symlinks(Fs) == \E i \in 1..Len(Fs) : IsSymlink(Fs[i].name)
any_non_regular_fifo(Fs) ==
  \E i \in 1..Len(Fs) :
    0 <= Fs[i].fd /\ ~S_ISREG(Fs[i].mode) /\ ~S_ISFIFO(Fs[i].mode)
tailable_stdin(Fs) == \E i \in 1..Len(Fs) : ~Fs[i].ignore /\ Fs[i].name = "-"

(***************************************************************************)
(* tail_forever: the body of the for loop for target i.                    *)
(* Returns [m, any, last, blocked]: the state, whether data was read, the  *)
(* new value of last, and whether a blocking read found no data.           *)
(***************************************************************************)
DataAvail(table, fd) ==
  IsOpen(table, fd) /\ table[fd].off < Len(inode[table[fd].ino].data)

\* tail_forever that asks dump_remainder for no bytes.
bytes_to_read_none(f, mode, stats) == 0

\* tail_forever that drains a remote file to end of file too.
bytes_to_read_to_eof(f, mode, stats) ==
  IF f.blocking # 0 THEN COPY_A_BUFFER ELSE COPY_TO_EOF

\* tail_forever: how much to read.
bytes_to_read(f, mode, stats) ==
  IF f.blocking # 0 THEN COPY_A_BUFFER
  ELSE IF S_ISREG(mode) /\ f.remote THEN stats.size - f.size
  ELSE COPY_TO_EOF

\* tail_forever: after dump_remainder returned r.
poll_read(f, i, fd, mode, read_unchanged, lst, r) ==
  [m |-> [r.m EXCEPT !.F[i].n_unchanged_stats =
                       IF read_unchanged /\ r.n # 0 THEN 0 ELSE @,
                     !.F[i].size = @ + r.n],
   any |-> r.n # 0, last |-> lst,
   \* a read of a blocking descriptor with nothing to read does not return
   blocked |-> r.n = 0 /\ IsOpen(r.m.fdt, fd) /\ ~r.m.fdt[fd].nb
               /\ ~S_ISREG(inode[r.m.fdt[fd].ino].kind)]

poll_drain(m, i, fd, mode, stats, read_unchanged, lst) ==
  poll_read(m.F[i], i, fd, mode, read_unchanged, lst,
            dump_remainder(
              Out(m, [t |-> "drain", i |-> i, blocking |-> m.F[i].blocking,
                      remote |-> m.F[i].remote, reg |-> S_ISREG(mode),
                      size |-> m.F[i].size, st_size |-> stats.size,
                      nb |-> IsOpen(m.fdt, fd) /\ m.fdt[fd].nb,
                      aonly |-> IsOpen(m.fdt, fd)
                                /\ inode[m.fdt[fd].ino].aonly,
                      left |-> IF IsOpen(m.fdt, fd) THEN DataLeft(m.fdt, fd)
                               ELSE 0]),
              FALSE, i, fd, bytes_to_read(m.F[i], mode, stats)))

PollSkip(m, lst) == [m |-> m, any |-> FALSE, last |-> lst, blocked |-> FALSE]

\* tail_forever: the header before the data of another file than the last.
poll_header(m, i, lst) ==
  IF i # lst /\ print_headers THEN Out(m, [t |-> "hdr", i |-> i]) ELSE m

\* tail_forever: the target changed, or is read although unchanged.
poll_changed(m, i, fd, mode, stats, read_unchanged, lst) ==
  IF fd # m.F[i].fd
  THEN \* affirm (fd == f[i].fd)
       PollSkip(Stop(m, "abort"), lst)
  ELSE poll_drain(
         poll_header(
           IF S_ISREG(mode) /\ stats.size < m.F[i].size
           THEN [Diag(m, i, "file truncated")
                   EXCEPT !.fdt[fd].off = 0, !.F[i].size = 0,
                          !.F[i].mtime = stats.mtime, !.F[i].mode = stats.kind,
                          !.F[i].n_unchanged_stats =
                            IF read_unchanged THEN @ ELSE 0]
           ELSE [m EXCEPT !.F[i].mtime = stats.mtime,
                          !.F[i].mode = stats.kind,
                          !.F[i].n_unchanged_stats =
                            IF read_unchanged THEN @ ELSE 0],
           i, lst),
         i, fd, mode, stats, read_unchanged, i)

\* tail_forever: after the unchanged-stat branch left m.
poll_unchanged(m, i, fd, mode, stats, lst) ==
  IF m.stop # "no" THEN PollSkip(m, lst)
  ELSE IF fd # m.F[i].fd \/ S_ISREG(stats.kind) \/ 1 < Len(m.F)
  THEN PollSkip(m, lst)
  ELSE poll_changed(m, i, fd, mode, stats, TRUE, lst)

\* tail_forever that probes the name in either follow mode.
poll_probe_any_mode(m, i, n) ==
  IF MaxUnchanged <= n
  THEN [recheck(m, i, m.F[i].blocking # 0)
          EXCEPT !.F[i].n_unchanged_stats = 0]
  ELSE m

\* tail_forever that probes the name one unchanged stat later.
poll_probe_late(m, i, n) ==
  IF MaxUnchanged < n /\ follow_mode = "name"
  THEN [recheck(m, i, m.F[i].blocking # 0)
          EXCEPT !.F[i].n_unchanged_stats = 0]
  ELSE m

\* tail_forever: the recheck after max_n_unchanged_stats_between_opens
\* unchanged stats; the counter only matters up to the threshold and is kept
\* there.
poll_probe(m, i, n) ==
  IF MaxUnchanged <= n /\ follow_mode = "name"
  THEN [recheck(m, i, m.F[i].blocking # 0)
          EXCEPT !.F[i].n_unchanged_stats = 0]
  ELSE m

poll_fstat(m, i, fd, mode, lst, f, stats) ==
  IF f.mode = stats.kind
     /\ (~S_ISREG(stats.kind) \/ f.size = stats.size)
     /\ f.mtime = stats.mtime
  THEN poll_unchanged(
         poll_probe([m EXCEPT !.F[i].n_unchanged_stats =
                                Min(@ + 1, MaxUnchanged + 1)],
                    i, f.n_unchanged_stats),
         i, fd, mode, stats, lst)
  ELSE poll_changed(m, i, fd, mode, stats, FALSE, lst)

poll_stat(m, i, fd, mode, lst) ==
  IF ~IsOpen(m.fdt, fd)
  THEN \* fstat fails: EBADF
       PollSkip(Diag([m EXCEPT !.F[i].fd = -1, !.F[i].errnum = EBADF],
                     i, "errno"), lst)
  ELSE poll_fstat(Out(m, [t |-> "fstat", i |-> i, reg |-> S_ISREG(mode),
                          st_size |-> fstat(m.fdt, fd).size,
                          size |-> m.F[i].size]),
                  i, fd, mode, lst, m.F[i], fstat(m.fdt, fd))

\* fcntl (fd, F_SETFL, flags | O_NONBLOCK) changes the flags of a blocking
\* descriptor; it is refused with EPERM on a file with the append-only
\* attribute.
SetflRefused(table, fd) == ~table[fd].nb /\ inode[table[fd].ino].aonly

\* tail_forever: the blocking mode of the descriptor is brought to blk.
poll_setfl(m, i, fd, mode, blk, lst, fcntl_fails) ==
  IF m.F[i].blocking # B2I(blk) /\ fcntl_fails
     /\ ~(IsOpen(m.fdt, fd) /\ S_ISREG(mode))
  THEN PollSkip(Stop(Diag(m, i, "cannot change nonblocking mode"), "failure"),
                lst)
  ELSE IF m.F[i].blocking # B2I(blk) /\ ~fcntl_fails
  THEN IF ~blk
       THEN poll_stat([m EXCEPT !.F[i].blocking = 0, !.fdt[fd].nb = TRUE],
                      i, fd, mode, lst)
       ELSE poll_drain([m EXCEPT !.F[i].blocking = 1], i, fd, mode, NoStats,
                       FALSE, lst)
  ELSE IF m.F[i].blocking = 0
  THEN poll_stat(m, i, fd, mode, lst)
  ELSE poll_drain(m, i, fd, mode, NoStats, FALSE, lst)

poll_one(m, i, blk, lst) ==
  IF m.F[i].ignore THEN PollSkip(m, lst)
  ELSE IF m.F[i].fd < 0 THEN PollSkip(recheck(m, i, blk), lst)
  ELSE poll_setfl(m, i, m.F[i].fd, m.F[i].mode, blk, lst,
                  ~IsOpen(m.fdt, m.F[i].fd)
                  \/ (~blk /\ SetflRefused(m.fdt, m.F[i].fd)))

(***************************************************************************)
(* Initial states.                                                         *)
(***************************************************************************)
Configs ==
  {c \in [follow_mode : {"descriptor", "name"}, retry : BOOLEAN,
          nbpids : {0, 1}, no_inotify : BOOLEAN,
          names : {<<"a", "b">>, <<"-", "a">>, <<"b">>, <<"-">>},
          stdin : {"FIFO", "CHR"},
          fs : {"plain", "absent", "remote", "aonly"},
          print_headers : BOOLEAN, monitor_output : {TRUE}] :
     /\ c.print_headers = (Len(c.names) > 1)
     /\ CASE c.names = <<"a", "b">> ->
               c.stdin = "CHR" /\ c.fs # "aonly"
          [] c.names = <<"-", "a">> ->
               \* main: "cannot follow - by name"
               c.follow_mode = "descriptor" /\ ~c.retry /\ c.fs = "plain"
          [] c.names = <<"b">> ->
               c.stdin = "CHR" /\ c.nbpids = 0 /\ c.fs \in {"plain", "aonly"}
          [] OTHER ->
               c.follow_mode = "descriptor" /\ ~c.retry /\ c.fs = "plain"
               /\ c.no_inotify}

NoFile == [ino |-> 0, lnk |-> FALSE]

Inode(kind, remote, data, aonly) ==
  [kind |-> kind, remote |-> remote, data |-> data, mtime |-> 1, links |-> 1,
   aonly |-> aonly, at_death |-> 0]

\* A File_spec before tail_file has filled it in: only the name is set;
\* parent_wd -2 stands for the indeterminate value of the allocation.
NewSpec(name) ==
  [name |-> name, size |-> 0, mtime |-> 0, dev |-> 0, ino |-> 0,
   mode |-> "NONE", ignore |-> FALSE, remote |-> FALSE, tailable |-> FALSE,
   fd |-> -1, errnum |-> 0, blocking |-> -1, wd |-> -1, parent_wd |-> -2,
   n_unchanged_stats |-> 0]

MainInit ==
  /\ cfg \in Configs
  /\ disable_inotify = cfg.no_inotify
  /\ dir = [x \in Names |->
              IF x = "a" THEN [ino |-> 3, lnk |-> FALSE]
              ELSE IF cfg.fs = "absent" THEN NoFile
              ELSE [ino |-> 4, lnk |-> FALSE]]
  /\ dirOk = TRUE
  /\ inode = << Inode("DIR", FALSE, <<>>, FALSE),
                Inode(cfg.stdin, FALSE, <<>>, FALSE),
                Inode("REG", FALSE, <<1, 2>>, FALSE),
                [Inode("REG", cfg.fs = "remote", <<3>>, cfg.fs = "aonly")
                   EXCEPT !.links = IF cfg.fs = "absent" THEN 0 ELSE 1] >>
  /\ nbytes = 3
  /\ pidst = "alive"
  /\ reader = TRUE
  /\ budget = MaxEnvOps
  /\ F = [k \in 1..Len(cfg.names) |-> NewSpec(cfg.names[k])]
  /\ fdt = [d \in FdSet |->
              IF d = STDIN_FILENO
              THEN [ino |-> StdinIno, off |-> 0, nb |-> FALSE, lnk |-> FALSE]
              ELSE Closed]
  /\ ok = TRUE
  /\ pc = "tail_file"
  /\ idx = 1
  /\ blocking = FALSE
  /\ last = 0
  /\ writers_dead = FALSE
  /\ any_input = FALSE
  /\ kw = <<>>
  /\ evq = <<>>
  /\ ht = {}
  /\ prev_fspec = 0
  /\ tailed_but_unwatchable = FALSE
  /\ found_watchable_file = FALSE
  /\ exitst = "running"
  /\ trace = <<>>
  /\ shown = 0

\* The program as main runs it: no function is called on its own.
NoCalc == [fn |-> "none"]

Init == MainInit /\ calc = NoCalc

(***************************************************************************)
(* Program steps.                                                          *)
(***************************************************************************)
\* The target standard output ends with after the writes of tr.
Shown(tr, sh) ==
  IF \A k \in 1..Len(tr) : tr[k].t \notin {"hdr", "data"} THEN sh
  ELSE tr[CHOOSE k \in 1..Len(tr) :
            /\ tr[k].t \in {"hdr", "data"}
            /\ \A x \in (k + 1)..Len(tr) : tr[x].t \notin {"hdr", "data"}].i

\* Store what a function left, and leave the program if it exited.
Commit(m, next) ==
  /\ F' = m.F
  /\ fdt' = m.fdt
  /\ kw' = m.kw
  /\ evq' = m.evq
  /\ ht' = m.ht
  /\ trace' = m.trace
  /\ shown' = Shown(m.trace, shown)
  /\ pc' = IF m.stop = "no" THEN next
           ELSE IF m.stop = "return" THEN "returned" ELSE "exit"
  /\ exitst' = IF m.stop \in {"no", "return"} THEN exitst ELSE m.stop

\* main: tail_file on each name in turn.
TailFileDo(r) ==
  /\ Commit(r.m, IF idx = n_files THEN "ignore_fifo" ELSE "tail_file")
  /\ ok' = (ok /\ r.ok)

TailFile ==
  /\ pc = "tail_file"
  /\ TailFileDo(tail_file(M, idx))
  /\ idx' = IF idx = n_files THEN 1 ELSE idx + 1
  /\ UNCHANGED <<cfg, calc, disable_inotify, envvars, pollvars, inolocals>>

MainExit == IF ok THEN "success" ELSE "failure"

\* main: forever && ignore_fifo_and_pipe (F, n_files).
IgnoreFifoAndPipe ==
  /\ pc = "ignore_fifo"
  /\ LET r == ignore_fifo_and_pipe(F) IN
     /\ F' = r.F
     /\ pc' = IF r.n_viable # 0 THEN "select" ELSE "exit"
     /\ exitst' = IF r.n_viable # 0 THEN exitst ELSE MainExit
  /\ trace' = <<[t |-> "ignore_fifo_and_pipe", i |-> 0]>>
  /\ UNCHANGED <<cfg, calc, shown, disable_inotify, envvars, fdt, ok, idx, pollvars, kw, evq,
                 ht, inolocals>>

\* tail_forever that uses blocking input while a PID is watched.
tail_forever_blocking_with_pid ==
  follow_mode = "descriptor" /\ n_files = 1 /\ F[1].fd # -1
  /\ ~S_ISREG(F[1].mode)

\* tail_forever: the initial values of its locals.
tail_forever_blocking ==
  nbpids = 0 /\ follow_mode = "descriptor" /\ n_files = 1 /\ F[1].fd # -1
  /\ ~S_ISREG(F[1].mode)

\* main that leaves disable_inotify as it is before tail_forever.
EnterPolling_keeps_inotify ==
  /\ UNCHANGED disable_inotify
  /\ blocking' = tail_forever_blocking
  /\ last' = n_files
  /\ writers_dead' = FALSE
  /\ any_input' = FALSE
  /\ idx' = 1
  /\ pc' = "poll"

\* main: disable_inotify = true, and the entry of tail_forever.
EnterPolling ==
  /\ disable_inotify' = TRUE
  /\ blocking' = tail_forever_blocking
  /\ last' = n_files
  /\ writers_dead' = FALSE
  /\ any_input' = FALSE
  /\ idx' = 1
  /\ pc' = "poll"

\* main: whether inotify may be used.
inotify_unusable ==
  \/ tailable_stdin(F) \/ any_remote_file(F) \/ ~any_non_remote_file(F)
  \/ any_symlinks(F) \/ any_non_regular_fifo(F)
  \/ (~ok /\ follow_mode = "descriptor")

SelectBackend ==
  /\ pc = "select"
  /\ IF disable_inotify \/ inotify_unusable
     THEN /\ EnterPolling
          /\ UNCHANGED inolocals
     ELSE /\ pc' = "ino_watch"
          /\ idx' = 1
          /\ prev_fspec' = 0
          /\ tailed_but_unwatchable' = FALSE
          /\ found_watchable_file' = FALSE
          /\ UNCHANGED <<disable_inotify, pollvars>>
  /\ trace' = <<>>
  /\ UNCHANGED <<cfg, calc, shown, envvars, F, fdt, ok, kw, evq, ht, exitst>>

PollStepDo(r) ==
  /\ ~r.blocked
  /\ Commit(r.m, "poll")
  /\ any_input' = (any_input \/ r.any)
  /\ last' = r.last

\* tail_forever: one pass of the for loop over target idx.
PollStep ==
  /\ pc = "poll"
  /\ idx <= n_files
  /\ PollStepDo(poll_one(M, idx, blocking, last))
  /\ idx' = idx + 1
  /\ UNCHANGED <<cfg, calc, disable_inotify, envvars, ok, blocking, writers_dead,
                 inolocals>>

\* tail_forever: the end of an iteration of the while loop.
PollEnd ==
  /\ pc = "poll"
  /\ idx > n_files
  /\ LET how ==
           IF ~any_live_files(F) THEN "failure"
           ELSE IF monitor_output /\ ~reader THEN "sigpipe"
           ELSE IF ~any_input /\ writers_dead THEN MainExit
           ELSE "no"
     IN /\ pc' = IF how = "no" THEN "poll" ELSE "exit"
        /\ exitst' = IF how = "no" THEN exitst ELSE how
        /\ trace' = IF ~any_live_files(F)
                    THEN <<[t |-> "diag", i |-> 0, msg |-> "no files remaining"]>>
                    ELSE IF how = MainExit
                    THEN <<[t |-> "writers dead", i |-> 0]>>
                    ELSE <<>>
        /\ writers_dead' = IF how = "no" /\ ~any_input THEN writers_are_dead
                           ELSE writers_dead
  /\ idx' = 1
  /\ any_input' = FALSE
  /\ UNCHANGED <<cfg, calc, shown, disable_inotify, envvars, F, fdt, ok, blocking, last, kw,
                 evq, ht, inolocals>>

(***************************************************************************)
(* The environment: other processes writing, truncating, renaming and      *)
(* removing files, the watched writer ending, the output reader leaving.    *)
(* The inotify kernel queues the events of the watches that exist.         *)
(***************************************************************************)
\* An event on inode n, if it is watched.  Only IN_MODIFY is in the mask of a
\* file watch when following by descriptor.
KEvent(q, watches, n, mask) ==
  IF n # 0 /\ WdOf(watches, n) # 0
     /\ (mask = "MODIFY" \/ follow_mode = "name")
  THEN Enqueue(q, Event(WdOf(watches, n), mask, ""))
  ELSE q

\* An event on a name of the watched directory.
KDirEvent(q, watches, mask, name) ==
  IF WdOf(watches, DirIno) # 0
  THEN Enqueue(q, Event(WdOf(watches, DirIno), mask, name))
  ELSE q

\* The inode lost its last link and is not open: IN_DELETE_SELF, and the
\* kernel removes the watch.  Returns [kw, evq].
KReap(q, watches, inodes, n) ==
  IF n # 0 /\ WdOf(watches, n) # 0 /\ inodes[n].links = 0
     /\ \A d \in FdSet : fdt[d].ino # n
  THEN [kw |-> [watches EXCEPT ![WdOf(watches, n)] = 0],
        evq |-> KEvent(q, watches, n, "DELETE_SELF")]
  ELSE [kw |-> watches, evq |-> q]

EnvStep ==
  /\ budget > 0
  /\ pc # "exit"
  /\ budget' = budget - 1
  /\ trace' = <<>>
  /\ UNCHANGED <<cfg, calc, shown, disable_inotify, F, fdt, ok, pc, idx, pollvars, ht,
                 inolocals, exitst>>

Observable(n) ==
  \/ \E x \in Names : dir[x].ino = n
  \/ \E d \in FdSet : fdt[d].ino = n

CanWrite == nbpids = 0 \/ pidst # "gone"

\* A process appends one byte to a file.
EnvAppend ==
  /\ EnvStep
  /\ CanWrite
  /\ \E n \in 2..Len(inode) :
       /\ Observable(n)
       /\ inode[n].kind \in {"REG", "CHR"}
       /\ inode' = [inode EXCEPT ![n].data = Append(@, nbytes + 1),
                                 ![n].mtime = @ + 1]
       /\ evq' = KEvent(evq, kw, n, "MODIFY")
  /\ nbytes' = nbytes + 1
  /\ UNCHANGED <<dir, dirOk, pidst, reader, kw>>

\* A process truncates a file to length zero.
EnvTruncate ==
  /\ EnvStep
  /\ CanWrite
  /\ \E n \in 3..Len(inode) :
       /\ Observable(n)
       /\ inode[n].kind = "REG"
       /\ ~inode[n].aonly
       /\ Len(inode[n].data) > 0
       /\ inode' = [inode EXCEPT ![n].data = <<>>, ![n].mtime = @ + 1]
       /\ evq' = KEvent(evq, kw, n, "MODIFY")
  /\ UNCHANGED <<dir, dirOk, nbytes, pidst, reader, kw>>

\* The inode a name is linked to (not the target of a symbolic link).
LinkOf(x) == IF dir[x].lnk THEN 0 ELSE dir[x].ino
Unlinked(inodes, n) == IF n = 0 THEN inodes ELSE [inodes EXCEPT ![n].links = @ - 1]

\* mv new x: a file made elsewhere is renamed onto the name x.  The new file
\* is a regular file holding one byte, a block device, or a symbolic link to
\* a regular file.
EnvReplace ==
  /\ EnvStep
  /\ dirOk
  /\ \E x \in Names, what \in {"REG", "BLK", "LNK"} :
       LET old == LinkOf(x)
           new == Len(inode) + 1
           made == Inode(IF what = "BLK" THEN "BLK" ELSE "REG", FALSE,
                         <<nbytes + 1>>, FALSE)
           inodes == Unlinked(Append(inode, made), old)
           q == KEvent(KDirEvent(evq, kw, "MOVED_TO", x), kw, old, "ATTRIB")
           k == KReap(q, kw, inodes, old)
       IN /\ inode' = inodes
          /\ dir' = [dir EXCEPT ![x] = [ino |-> new, lnk |-> what = "LNK"]]
          /\ evq' = k.evq
          /\ kw' = k.kw
  /\ nbytes' = nbytes + 1
  /\ UNCHANGED <<dirOk, pidst, reader>>

\* rm x.
EnvUnlink ==
  /\ EnvStep
  /\ \E x \in Names :
       /\ dir[x] # NoFile
       /\ LET old == LinkOf(x)
              inodes == Unlinked(inode, old)
              q == KDirEvent(KEvent(evq, kw, old, "ATTRIB"), kw, "DELETE", x)
              k == KReap(q, kw, inodes, old)
          IN /\ inode' = inodes
             /\ dir' = [dir EXCEPT ![x] = NoFile]
             /\ evq' = k.evq
             /\ kw' = k.kw
  /\ UNCHANGED <<dirOk, nbytes, pidst, reader>>

\* mv x elsewhere: the file keeps its link count under another name.
EnvMoveAway ==
  /\ EnvStep
  /\ \E x \in Names :
       /\ dir[x] # NoFile
       /\ dir' = [dir EXCEPT ![x] = NoFile]
       /\ evq' = KEvent(evq, kw, LinkOf(x), "MOVE_SELF")
  /\ UNCHANGED <<dirOk, inode, nbytes, pidst, reader, kw>>

\* mv x y, both names followed.
EnvRename ==
  /\ EnvStep
  /\ \E x \in Names, y \in Names :
       /\ x # y
       /\ dir[x] # NoFile
       /\ LET old == LinkOf(y)
              inodes == Unlinked(inode, old)
              q == KEvent(KEvent(KDirEvent(evq, kw, "MOVED_TO", y), kw, old,
                                 "ATTRIB"), kw, LinkOf(x), "MOVE_SELF")
              k == KReap(q, kw, inodes, old)
          IN /\ inode' = inodes
             /\ dir' = [dir EXCEPT ![y] = dir[x], ![x] = NoFile]
             /\ evq' = k.evq
             /\ kw' = k.kw
  /\ UNCHANGED <<dirOk, nbytes, pidst, reader>>

\* The watched writer process ends; at_death keeps the length each file has
\* at that moment.
EnvKill ==
  /\ EnvStep
  /\ nbpids # 0
  /\ pidst # "gone"
  /\ pidst' = "gone"
  /\ inode' = [n \in DOMAIN inode |->
                [inode[n] EXCEPT !.at_death = Len(inode[n].data)]]
  /\ UNCHANGED <<dir, dirOk, nbytes, reader, kw, evq>>

\* The reader of standard output goes away.
EnvHangup ==
  /\ EnvStep
  /\ reader
  /\ reader' = FALSE
  /\ UNCHANGED <<dir, dirOk, inode, nbytes, pidst, kw, evq>>

\* rmdir of the directory of the names, once it is empty.
EnvRmdir ==
  /\ EnvStep
  /\ dirOk
  /\ \A x \in Names : dir[x] = NoFile
  /\ dirOk' = FALSE
  /\ evq' = KEvent(evq, kw, DirIno, "DELETE_SELF")
  /\ kw' = IF WdOf(kw, DirIno) # 0 THEN [kw EXCEPT ![WdOf(kw, DirIno)] = 0]
           ELSE kw
  /\ UNCHANGED <<dir, inode, nbytes, pidst, reader>>

\* ln -s elsewhere x: a file that was moved away is linked back under its
\* name by a symbolic link.
Elsewhere(n) ==
  /\ n \in 3..Len(inode)
  /\ inode[n].links > Cardinality({y \in Names : LinkOf(y) = n})

EnvSymlink ==
  /\ EnvStep
  /\ dirOk
  /\ \E x \in Names, n \in 3..Len(inode) :
       /\ dir[x] = NoFile
       /\ Elsewhere(n)
       /\ dir' = [dir EXCEPT ![x] = [ino |-> n, lnk |-> TRUE]]
       /\ evq' = KDirEvent(evq, kw, "CREATE", x)
  /\ UNCHANGED <<dirOk, inode, nbytes, pidst, reader, kw>>

Env ==
  \/ EnvAppend \/ EnvTruncate \/ EnvReplace \/ EnvUnlink \/ EnvMoveAway
  \/ EnvRename \/ EnvRmdir \/ EnvKill \/ EnvHangup

(***************************************************************************)
(* check_fspec: output new data of target i.  Returns [m, prev].           *)
(***************************************************************************)
\* check_fspec that does not add the bytes read to the stored size.
check_fspec_read_keeps_size(i, prev, r) ==
  [m |-> r.m, prev |-> IF r.n # 0 THEN i ELSE prev]

check_fspec_read(i, prev, r) ==
  [m |-> [r.m EXCEPT !.F[i].size = @ + r.n],
   prev |-> IF r.n # 0 THEN i ELSE prev]

\* check_fspec that reads on from where the descriptor stands after a
\* truncation.
check_fspec_stat_no_rewind(m, i, prev, f, stats) ==
  IF S_ISREG(f.mode) /\ stats.size = f.size /\ f.mtime = stats.mtime
  THEN [m |-> m, prev |-> prev]
  ELSE check_fspec_read(
         i, prev,
         dump_remainder(m, print_headers /\ i # prev, i, f.fd, COPY_TO_EOF))

check_fspec_stat(m, i, prev, f, stats) ==
  IF S_ISREG(f.mode) /\ stats.size < f.size
  THEN check_fspec_read(
         i, prev,
         dump_remainder([Diag(m, i, "file truncated")
                           EXCEPT !.fdt[f.fd].off = 0, !.F[i].size = 0],
                        print_headers /\ i # prev, i, f.fd, COPY_TO_EOF))
  ELSE IF S_ISREG(f.mode) /\ stats.size = f.size /\ f.mtime = stats.mtime
  THEN [m |-> m, prev |-> prev]
  ELSE check_fspec_read(
         i, prev,
         dump_remainder(m, print_headers /\ i # prev, i, f.fd, COPY_TO_EOF))

check_fspec_fd(m, i, prev) ==
  IF m.F[i].fd = -1 THEN [m |-> m, prev |-> prev]
  ELSE IF ~IsOpen(m.fdt, m.F[i].fd)
  THEN \* fstat fails: EBADF
       [m |-> [close_fd(m, m.F[i].fd, i)
                 EXCEPT !.F[i].errnum = EBADF, !.F[i].fd = -1],
        prev |-> prev]
  ELSE check_fspec_stat(Out(m, [t |-> "fstat", i |-> i,
                                reg |-> S_ISREG(m.F[i].mode),
                                st_size |-> fstat(m.fdt, m.F[i].fd).size,
                                size |-> m.F[i].size]),
                        i, prev, m.F[i], fstat(m.fdt, m.F[i].fd))

check_fspec(m, i, prev) ==
  check_fspec_fd(Out(m, [t |-> "check_fspec", i |-> i]), i, prev)

(***************************************************************************)
(* wd_to_name: the hash table holds File_specs and compares them by wd.    *)
(***************************************************************************)
hash_lookup(table, Fs, w) ==
  IF \E e \in table : Fs[e].wd = w
  THEN CHOOSE e \in table : Fs[e].wd = w
  ELSE 0

\* hash_insert adds the entry unless an entry that compares equal is there.
hash_insert(table, Fs, i) ==
  IF \E e \in table : Fs[e].wd = Fs[i].wd THEN table ELSE table \cup {i}

hash_remove(table, Fs, w) == {e \in table : Fs[e].wd # w}

(***************************************************************************)
(* tail_forever_inotify: adding the watches of target i.                   *)
(* Returns [m, tbu, fwf]: the state and the locals tailed_but_unwatchable  *)
(* and found_watchable_file; m.stop is "return" when the loop is left to   *)
(* revert to polling.                                                      *)
(***************************************************************************)
InoRes(m, tbu, fwf) == [m |-> m, tbu |-> tbu, fwf |-> fwf]

\* f[i].wd = inotify_add_watch (wd, f[i].name, inotify_wd_mask) returned fw.
ino_watch_file(m, i, tbu, fwf, fw) ==
  IF fw.wd < 0
  THEN IF fw.errno = ENOSPC
       THEN InoRes(Stop(Diag([m EXCEPT !.F[i].wd = fw.wd], i,
                             "inotify resources exhausted"), "return"),
                   tbu \/ m.F[i].fd # -1, fwf)
       ELSE InoRes(IF fw.errno # m.F[i].errnum
                   THEN Diag([m EXCEPT !.F[i].wd = fw.wd], i, "cannot watch")
                   ELSE [m EXCEPT !.F[i].wd = fw.wd],
                   tbu \/ m.F[i].fd # -1, fwf)
  ELSE InoRes([m EXCEPT !.F[i].wd = fw.wd, !.kw = fw.kw,
                        !.ht = hash_insert(@, [m.F EXCEPT ![i].wd = fw.wd], i)],
              tbu, TRUE)

\* f[i].parent_wd = inotify_add_watch (wd, directory, ...) returned pw.
ino_watch_dir(m, i, tbu, fwf, pw) ==
  IF pw.wd < 0
  THEN InoRes(Stop(Diag([m EXCEPT !.F[i].wd = -1, !.F[i].parent_wd = pw.wd],
                        i,
                        IF pw.errno # ENOSPC
                        THEN "cannot watch parent directory"
                        ELSE "inotify resources exhausted"), "return"),
              tbu, fwf)
  ELSE ino_watch_file([m EXCEPT !.F[i].wd = -1, !.F[i].parent_wd = pw.wd,
                                !.kw = pw.kw],
                      i, tbu, fwf,
                      inotify_add_watch(pw.kw, dir[m.F[i].name].ino))

ino_add_watches(m, i, tbu, fwf) ==
  IF m.F[i].ignore THEN InoRes(m, tbu, fwf)
  ELSE IF follow_mode = "name"
  THEN ino_watch_dir(m, i, tbu, fwf,
                     inotify_add_watch(m.kw, IF dirOk THEN DirIno ELSE 0))
  ELSE ino_watch_file([m EXCEPT !.F[i].wd = -1], i, tbu, fwf,
                      inotify_add_watch(m.kw, dir[m.F[i].name].ino))

\* tail_forever_inotify that goes on although a tailed file is unwatchable.
ino_watches_done_goes_on(m, tbu, fwf) ==
  IF m.stop # "no" THEN m
  ELSE IF follow_mode = "descriptor" /\ ~fwf THEN Stop(m, "failure")
  ELSE m

\* The tests after the loop.
ino_watches_done(m, tbu, fwf) ==
  IF m.stop # "no" THEN m
  ELSE IF follow_mode = "descriptor" /\ tbu THEN Stop(m, "return")
  ELSE IF follow_mode = "descriptor" /\ ~fwf THEN Stop(m, "failure")
  ELSE m

InoWatchDo(r) ==
  /\ Commit(IF idx = n_files THEN ino_watches_done(r.m, r.tbu, r.fwf) ELSE r.m,
            IF idx = n_files THEN "ino_check" ELSE "ino_watch")
  /\ tailed_but_unwatchable' = r.tbu
  /\ found_watchable_file' = r.fwf

InoWatch ==
  /\ pc = "ino_watch"
  /\ InoWatchDo(ino_add_watches(M, idx, tailed_but_unwatchable,
                                found_watchable_file))
  /\ idx' = IF idx = n_files THEN 1 ELSE idx + 1
  /\ prev_fspec' = n_files
  /\ UNCHANGED <<cfg, calc, disable_inotify, envvars, ok, pollvars>>

(***************************************************************************)
(* tail_forever_inotify: the check of target i after the watches are set.  *)
(***************************************************************************)
\* stat (name) succeeds and names another file than the one held.
WasReplaced(f) ==
  /\ dir[f.name].ino # 0
  /\ \/ f.ino # dir[f.name].ino
     \/ f.dev # (IF inode[dir[f.name].ino].remote THEN 2 ELSE 1)

ino_check_data(m, i, prev) ==
  IF m.stop # "no" THEN [m |-> m, prev |-> prev]
  ELSE check_fspec(m, i, prev)

\* tail_forever_inotify that looks for new files only, not for new data.
ino_first_check_no_data(m, i, prev) ==
  IF m.F[i].ignore THEN [m |-> m, prev |-> prev]
  ELSE IF follow_mode = "name"
  THEN [m |-> recheck(m, i, FALSE), prev |-> prev]
  ELSE IF m.F[i].fd # -1 /\ WasReplaced(m.F[i])
  THEN [m |-> Stop(Diag(m, i, "was replaced"), "return"), prev |-> prev]
  ELSE [m |-> m, prev |-> prev]

ino_first_check(m, i, prev) ==
  IF m.F[i].ignore THEN [m |-> m, prev |-> prev]
  ELSE IF follow_mode = "name"
  THEN ino_check_data(recheck(m, i, FALSE), i, prev)
  ELSE IF m.F[i].fd # -1 /\ WasReplaced(m.F[i])
  THEN [m |-> Stop(Diag(m, i, "was replaced"), "return"), prev |-> prev]
  ELSE check_fspec(m, i, prev)

InoDo(r) ==
  /\ Commit(r.m, IF pc = "ino_check" /\ idx < n_files THEN "ino_check"
                 ELSE "ino_loop")
  /\ prev_fspec' = r.prev

InoCheck ==
  /\ pc = "ino_check"
  /\ InoDo(ino_first_check(M, idx, prev_fspec))
  /\ idx' = IF idx = n_files THEN 1 ELSE idx + 1
  /\ UNCHANGED <<cfg, calc, disable_inotify, envvars, ok, pollvars,
                 tailed_but_unwatchable, found_watchable_file>>

(***************************************************************************)
(* tail_forever_inotify: one event.  g is what comparing an indeterminate  *)
(* parent_wd (a File_spec that was ignored when the watches were added)    *)
(* with the event's wd yields.                                             *)
(***************************************************************************)
ParentIs(f, w, g) == f.parent_wd = w \/ (f.parent_wd = -2 /\ g)

\* The dispatch that removes watch and entry on every IN_MOVE_SELF.
ino_file_event_always_removes(m, i, ev, prev) ==
  IF i = 0 \/ m.stop # "no" THEN [m |-> m, prev |-> prev]
  ELSE IF ev.mask \in {"ATTRIB", "DELETE", "DELETE_SELF", "MOVE_SELF"}
  THEN [m |-> recheck(
                IF ev.mask \in {"DELETE_SELF", "MOVE_SELF"}
                THEN [m EXCEPT !.kw = inotify_rm_watch(@, m.F[i].wd),
                               !.ht = hash_remove(@, m.F, m.F[i].wd)]
                ELSE m,
                i, FALSE),
        prev |-> prev]
  ELSE check_fspec(m, i, prev)

\* The end of the dispatch: recheck on a change of the name, else new data.
ino_file_event(m, i, ev, prev) ==
  IF i = 0 \/ m.stop # "no" THEN [m |-> m, prev |-> prev]
  ELSE IF ev.mask \in {"ATTRIB", "DELETE", "DELETE_SELF", "MOVE_SELF"}
  THEN [m |-> recheck(
                IF ev.mask = "DELETE_SELF"
                   \/ (~reopen_inaccessible_files /\ ev.mask = "MOVE_SELF")
                THEN [m EXCEPT !.kw = inotify_rm_watch(@, m.F[i].wd),
                               !.ht = hash_remove(@, m.F, m.F[i].wd)]
                ELSE m,
                i, FALSE),
        prev |-> prev]
  ELSE check_fspec(m, i, prev)

\* if (follow_mode == Follow_name) recheck (fspec, false);
ino_dir_recheck(m, j, ev, prev) ==
  ino_file_event(IF follow_mode = "name" /\ m.stop = "no"
                 THEN recheck(m, j, FALSE) ELSE m,
                 j, ev, prev)

\* The entry prv that had the new wd: recheck it, forget its watch, close it.
ino_victim_close(m, prv) ==
  IF m.stop # "no" THEN m
  ELSE close_fd([m EXCEPT !.F[prv].wd = -1], m.F[prv].fd, prv)

ino_victim(m, j, prv) ==
  IF prv # 0 /\ prv # j
  THEN ino_victim_close(IF follow_mode = "name" THEN recheck(m, prv, FALSE)
                        ELSE m, prv)
  ELSE m

ino_insert(m, j) ==
  IF m.stop # "no" THEN m ELSE [m EXCEPT !.ht = hash_insert(@, m.F, j)]

\* prev = hash_remove (wd_to_name, fspec); ...; hash_insert (wd_to_name, fspec)
ino_rewatch(m, j) ==
  ino_insert(ino_victim([m EXCEPT !.ht = hash_remove(@, m.F, m.F[j].wd)], j,
                        hash_lookup(m.ht, m.F, m.F[j].wd)),
             j)

\* Remove the existing watch and entry; fspec->wd = new_wd.
ino_set_wd(m, j, new_wd) ==
  [(IF 0 <= m.F[j].wd
    THEN [m EXCEPT !.kw = inotify_rm_watch(@, m.F[j].wd),
                   !.ht = hash_remove(@, m.F, m.F[j].wd)]
    ELSE m)
     EXCEPT !.F[j].wd = new_wd]

ino_dir_new(m, j, ev, prev, new_wd) ==
  IF ev.mask # "DELETE" /\ (m.F[j].wd < 0 \/ new_wd # m.F[j].wd)
  THEN IF new_wd = -1
       THEN [m |-> ino_set_wd(m, j, new_wd), prev |-> prev]
       ELSE ino_dir_recheck(ino_rewatch(ino_set_wd(m, j, new_wd), j),
                            j, ev, prev)
  ELSE ino_dir_recheck(m, j, ev, prev)

\* new_wd = inotify_add_watch (wd, f[j].name, inotify_wd_mask) returned aw.
ino_dir_watch(m, j, ev, prev, aw) ==
  IF ev.mask # "DELETE" /\ aw.wd < 0 /\ aw.errno = ENOSPC
  THEN [m |-> Stop(Diag(m, j, "inotify resources exhausted"), "return"),
        prev |-> prev]
  ELSE ino_dir_new(IF ev.mask # "DELETE" /\ aw.wd < 0
                   THEN Diag(m, j, "cannot watch")
                   ELSE [m EXCEPT !.kw = aw.kw],
                   j, ev, prev, aw.wd)

ino_dir_event(m, j, ev, prev) ==
  IF j = 0 THEN [m |-> m, prev |-> prev]
  ELSE ino_dir_watch(m, j, ev, prev,
                     IF ev.mask = "DELETE"
                     THEN [wd |-> -1, errno |-> 0, kw |-> m.kw]
                     ELSE inotify_add_watch(m.kw, dir[m.F[j].name].ino))

\* The first File_spec whose directory watch and name match the event, or 0.
DirMatch(Fs, ev, g) ==
  IF \E j \in 1..Len(Fs) : ParentIs(Fs[j], ev.wd, g) /\ Fs[j].name = ev.name
  THEN CHOOSE j \in 1..Len(Fs) :
         /\ ParentIs(Fs[j], ev.wd, g) /\ Fs[j].name = ev.name
         /\ \A k \in 1..(j - 1) :
              ~(ParentIs(Fs[k], ev.wd, g) /\ Fs[k].name = ev.name)
  ELSE 0

ino_dispatch(m, ev, prev, g) ==
  IF ev.mask = "DELETE_SELF" /\ ev.name = ""
     /\ \E i \in 1..Len(m.F) : ParentIs(m.F[i], ev.wd, g)
  THEN [m |-> Stop(Diag(m, 0, "directory removed"), "return"), prev |-> prev]
  ELSE IF ev.name # ""
  THEN ino_dir_event(m, DirMatch(m.F, ev, g), ev, prev)
  ELSE ino_file_event(m, hash_lookup(m.ht, m.F, ev.wd), ev, prev)

\* What the top of the while loop and the wait for events decide.
ino_wait ==
  IF follow_mode = "name" /\ ~reopen_inaccessible_files /\ ht = {}
  THEN "no files remaining"
  ELSE IF nbpids # 0 /\ writers_dead THEN "writers dead"
  ELSE IF monitor_output /\ ~reader THEN "sigpipe"
  ELSE "event"

\* The exits of the while loop before an event is read.
ino_exit(m, why) ==
  CASE why = "no files remaining" ->
         Stop(Diag(m, 0, "no files remaining"), "failure")
    [] why = "writers dead" -> Stop(m, "success")
    [] why = "sigpipe" -> Stop(m, "sigpipe")
    [] OTHER -> m

HasIndeterminate == \E i \in 1..n_files : F[i].parent_wd = -2

\* An iteration of the while loop that reads one event.
InoEvent ==
  /\ pc = "ino_loop"
  /\ evq # <<>>
  /\ \E g \in IF HasIndeterminate /\ follow_mode = "name" THEN BOOLEAN
              ELSE {FALSE} :
       InoDo(IF ino_wait # "event"
             THEN [m |-> ino_exit(M, ino_wait), prev |-> prev_fspec]
             ELSE ino_dispatch([M EXCEPT !.evq = Tail(evq)], Head(evq),
                               prev_fspec, g))
  /\ writers_dead' = IF nbpids # 0 /\ ino_wait \in {"sigpipe", "event"}
                     THEN writers_are_dead ELSE writers_dead
  /\ UNCHANGED <<cfg, calc, disable_inotify, envvars, ok, idx, blocking, last,
                 any_input, tailed_but_unwatchable, found_watchable_file>>

\* An iteration that finds no event: it exits, or keeps waiting.
InoIdle ==
  /\ pc = "ino_loop"
  /\ evq = <<>>
  /\ \/ ino_wait # "event"
     \/ (nbpids # 0 /\ writers_dead # writers_are_dead)
  /\ Commit(ino_exit(M, ino_wait), "ino_loop")
  /\ writers_dead' = IF nbpids # 0 /\ ino_wait \in {"sigpipe", "event"}
                     THEN writers_are_dead ELSE writers_dead
  /\ UNCHANGED <<cfg, calc, disable_inotify, envvars, ok, idx, blocking, last,
                 any_input, inolocals>>

\* main: tail_forever_inotify returned; free the table, close the inotify
\* descriptor, and run tail_forever.
Revert ==
  /\ pc = "returned"
  /\ EnterPolling
  /\ kw' = <<>>
  /\ evq' = <<>>
  /\ ht' = {}
  /\ trace' = <<[t |-> "diag", i |-> 0, msg |-> "reverting to polling"]>>
  /\ UNCHANGED <<cfg, calc, shown, envvars, F, fdt, ok, inolocals, exitst>>

PollNext ==
  TailFile \/ IgnoreFifoAndPipe \/ SelectBackend \/ PollStep \/ PollEnd \/ Env

PollInit == Init /\ cfg.no_inotify

\* tail_forever: the read of target idx would not return: the loop uses
\* blocking input, the descriptor is blocking, and there is nothing to read.
WouldBlock ==
  /\ idx <= n_files
  /\ blocking
  /\ ~F[idx].ignore
  /\ IsOpen(fdt, F[idx].fd)
  /\ ~fdt[F[idx].fd].nb
  /\ ~S_ISREG(inode[fdt[F[idx].fd].ino].kind)
  /\ ~DataAvail(fdt, F[idx].fd)

\* tail_forever moves on: to the next target, the next pass, or the exit.
PollAdvance ==
  /\ pc = "poll"
  /\ ~WouldBlock
  /\ pc' \in {"poll", "exit"}
  /\ idx' \in 1..(n_files + 1)

\* tail_forever never stops iterating by itself: unless a read blocks, it
\* goes on to the next target, and after each pass it sleeps and starts the
\* next one.
SpecPoll == PollInit /\ [][PollNext]_vars /\ WF_<<pc, idx>>(PollAdvance)

Next ==
  \/ TailFile \/ IgnoreFifoAndPipe \/ SelectBackend
  \/ InoWatch \/ InoCheck \/ InoEvent \/ InoIdle \/ Revert
  \/ PollStep \/ PollEnd
  \/ Env

Spec == Init /\ [][Next]_vars

\* main runs on after tail_forever_inotify returns.
SpecRevert == Init /\ [][Next]_vars /\ WF_vars(Revert)

\* The program in an environment that also makes symbolic links.
LinkNext == Next \/ EnvSymlink

SpecLink == Init /\ [][LinkNext]_vars

\* The program can take a step: it has not exited, no read blocks, and the
\* wait of tail_forever_inotify returns (an event is queued, an exit is
\* due, or the poll times out because a writer is watched and its state is
\* looked at again).
CanStep ==
  CASE pc = "exit" -> FALSE
    [] pc = "poll" -> ~WouldBlock
    [] pc = "ino_loop" ->
         \/ evq # <<>>
         \/ ino_wait # "event"
         \/ (nbpids # 0 /\ writers_dead # writers_are_dead)
    [] OTHER -> TRUE

\* The events a step of the program leaves queued: it may read the first,
\* and each close of the last descriptor of an unlinked file queues an
\* IN_DELETE_SELF behind the others; main discards the queue with the
\* inotify descriptor.
DeleteSelf(q, s) ==
  IF Len(s) = 0 THEN q
  ELSE IF Len(s) = 1 THEN Enqueue(q, Event(s[1], "DELETE_SELF", ""))
  ELSE Enqueue(Enqueue(q, Event(s[1], "DELETE_SELF", "")),
               Event(s[2], "DELETE_SELF", ""))

QueuedAfter ==
  {<<>>}
  \cup {DeleteSelf(q, s) :
          q \in {evq} \cup (IF evq = <<>> THEN {} ELSE {Tail(evq)}),
          s \in {<<>>} \cup {<<w>> : w \in 1..MaxWatches}
                \cup {<<w, x>> : w \in 1..MaxWatches, x \in 1..MaxWatches}}

\* What every step of the program does to its position.
progvars == <<pc, idx, writers_dead, evq>>

ProgramStep ==
  /\ CanStep
  /\ budget' = budget
  /\ pc' \in {"tail_file", "ignore_fifo", "select", "ino_watch", "ino_check",
              "ino_loop", "returned", "poll", "exit"}
  /\ idx' \in 1..(n_files + 1)
  /\ writers_dead' \in BOOLEAN
  /\ evq' \in QueuedAfter

\* The program is sequential code that runs on: main, both loops, and the
\* polls and sleeps in them return.
\* The runs with --pid: on standard input, on standard input and a file, and
\* by name on a file and a name that does not exist at the start.
PidInit ==
  /\ Init
  /\ cfg.nbpids # 0
  /\ \/ cfg.names[1] = "-"
     \/ cfg.fs = "absent" /\ cfg.follow_mode = "name"

SpecPid == PidInit /\ [][Next]_vars /\ WF_progvars(ProgramStep)

(***************************************************************************)
(* Functions called on their own.                                          *)
(***************************************************************************)
\* The most processes given with --pid.
MaxPids == 4

PidStates == {"alive", "eperm", "gone"}

PidLists == UNION {[1..k -> PidStates] : k \in 0..MaxPids}

\* A call of writers_are_dead with the watched processes in any states.
WritersInit ==
  /\ MainInit
  /\ cfg = CHOOSE c \in Configs : c.nbpids # 0
  /\ calc \in {[fn |-> "writers_are_dead", pids |-> p, done |-> FALSE,
                ret |-> FALSE] : p \in PidLists}

WritersAreDead ==
  /\ calc.fn = "writers_are_dead"
  /\ ~calc.done
  /\ calc' = [calc EXCEPT !.done = TRUE,
                          !.ret = writers_are_dead_of(calc.pids)]
  /\ UNCHANGED <<cfg, shown, disable_inotify, envvars, F, fdt, ok, pc, idx,
                 pollvars,
                 kw, evq, ht, inolocals, exitst, trace>>

\* A watched process ends, or its user changes, between two calls.
PidChange ==
  /\ calc.fn = "writers_are_dead"
  /\ calc.done
  /\ \E i \in 1..Len(calc.pids) : \E st \in {"eperm", "gone"} :
       /\ calc.pids[i] \notin {st, "gone"}
       /\ calc' = [calc EXCEPT !.pids[i] = st, !.done = FALSE]
  /\ UNCHANGED <<cfg, shown, disable_inotify, envvars, F, fdt, ok, pc, idx,
                 pollvars,
                 kw, evq, ht, inolocals, exitst, trace>>

WritersNext == WritersAreDead \/ PidChange

SpecWriters == WritersInit /\ [][WritersNext]_vars

(***************************************************************************)
(* The initial tail on its own.  An input is the sequence d of its bytes;  *)
(* the output is the sequence of the positions (1 .. Len(d)) of the bytes  *)
(* written, so that a byte written from the wrong place shows.             *)
(***************************************************************************)
line_end == "\n"

\* The bits of uintmax_t in the runs of the model; off_t has as many, one of
\* them the sign.
UintmaxBits == 4
UINTMAX_MAX == 2 ^ UintmaxBits - 1
OFF_T_MAX == 2 ^ (UintmaxBits - 1) - 1

SEEK_SET == 0
SEEK_CUR == 1
SEEK_END == 2

\* lseek (fd, offset, whence) on a regular file of size bytes open at offset
\* cur: the new offset, or -1.
lseek(size, cur, offset, whence) ==
  CASE whence = SEEK_SET -> IF offset < 0 THEN -1 ELSE offset
    [] whence = SEEK_CUR -> IF cur + offset < 0 THEN -1 ELSE cur + offset
    [] whence = SEEK_END -> IF size + offset < 0 THEN -1 ELSE size + offset
    [] OTHER -> -1

\* getpagesize ().
PageSize == 4

\* The positions of the bytes at offsets a .. b - 1.
Bytes(a, b) == [k \in 1..(b - a) |-> a + k]

\* The number of line_end bytes at offsets a .. b - 1 of d.
Newlines(d, a, b) == Cardinality({k \in (a + 1)..b : d[k] = line_end})

\* dump_remainder on a regular file or a pipe holding d, read from offset
\* off: what it writes when asked for n_bytes.
copy_remainder(d, off, n_bytes) ==
  IF n_bytes = COPY_TO_EOF THEN Bytes(off, Len(d))
  ELSE Bytes(off, Min(Len(d), off + n_bytes))

\* safe_read of count bytes of a regular file at offset pos: the number read.
read_at(d, pos, count) ==
  IF Len(d) <= pos THEN 0 ELSE Min(count, Len(d) - pos)

\* memrchr (buffer, line_end, n) on the buffer read at offset pos: the index
\* of the last line_end among the first n bytes, -1 for a null pointer.
memrchr(d, pos, n) ==
  IF \A k \in 0..(n - 1) : d[pos + k + 1] # line_end THEN -1
  ELSE CHOOSE k \in 0..(n - 1) :
         /\ d[pos + k + 1] = line_end
         /\ \A x \in (k + 1)..(n - 1) : d[pos + x + 1] # line_end

\* file_lines: the backward scan of one bufferfull, from index n down.
\* Returns the index of the newline the output starts after, or the lines
\* still wanted.
RECURSIVE file_lines_scan(_, _, _, _)
file_lines_scan(d, pos, n, n_lines) ==
  IF n = 0 \/ memrchr(d, pos, n) = -1
  THEN [found |-> FALSE, n |-> 0, n_lines |-> n_lines]
  ELSE IF n_lines = 0
  THEN [found |-> TRUE, n |-> memrchr(d, pos, n), n_lines |-> 0]
  ELSE file_lines_scan(d, pos, memrchr(d, pos, n), n_lines - 1)

\* file_lines: the do-while loop, with the buffer read at offset pos.
RECURSIVE file_lines_loop(_, _, _, _, _, _, _)
file_lines_found(d, end_pos, pos, bytes_read, n) ==
  Bytes(pos + n + 1, pos + bytes_read)
    \o copy_remainder(d, pos + bytes_read, end_pos - (pos + bytes_read))

file_lines_next(d, start_pos, end_pos, bufsize, pos, bytes_read, r) ==
  IF r.found THEN file_lines_found(d, end_pos, pos, bytes_read, r.n)
  ELSE IF pos = start_pos THEN copy_remainder(d, start_pos, end_pos)
  ELSE IF read_at(d, pos - bufsize, bufsize) = 0 THEN <<>>
  ELSE file_lines_loop(d, start_pos, end_pos, bufsize, pos - bufsize,
                       read_at(d, pos - bufsize, bufsize), r.n_lines)

file_lines_loop(d, start_pos, end_pos, bufsize, pos, bytes_read, n_lines) ==
  file_lines_next(d, start_pos, end_pos, bufsize, pos, bytes_read,
                  file_lines_scan(d, pos, bytes_read, n_lines))

\* file_lines that does not count a last line without delimiter.
file_lines_whole(d, n_lines, start_pos, end_pos, bufsize, pos, bytes_read) ==
  file_lines_loop(d, start_pos, end_pos, bufsize, pos, bytes_read, n_lines)

\* file_lines: after the read of the last, probably partial, buffer.
file_lines_first(d, n_lines, start_pos, end_pos, bufsize, pos, bytes_read) ==
  file_lines_loop(d, start_pos, end_pos, bufsize, pos, bytes_read,
                  IF bytes_read # 0 /\ d[pos + bytes_read] # line_end
                  THEN n_lines - 1 ELSE n_lines)

file_lines_sized(d, n_lines, start_pos, end_pos, bufsize, bytes_read) ==
  file_lines_first(d, n_lines, start_pos, end_pos, bufsize,
                   end_pos - bytes_read,
                   read_at(d, end_pos - bytes_read, bytes_read))

\* file_lines on the file d, of which [start_pos, end_pos) is to be tailed;
\* st_size is the size fstat reported.
file_lines_buf(d, n_lines, start_pos, end_pos, bufsize) ==
  file_lines_sized(d, n_lines, start_pos, end_pos, bufsize,
                   IF (end_pos - start_pos) % bufsize = 0 THEN bufsize
                   ELSE (end_pos - start_pos) % bufsize)

file_lines(d, st_size, n_lines, start_pos, end_pos) ==
  IF n_lines = 0 THEN <<>>
  ELSE file_lines_buf(d, n_lines, start_pos, end_pos,
                      IF st_size % PageSize = 0 /\ BufSize < PageSize
                      THEN PageSize ELSE BufSize)

\* One buffer of pipe_lines or pipe_bytes: it holds the bytes at offsets
\* from .. to - 1 of the input, nlines newlines among them.
Buffer(from, to, nlines) == [from |-> from, to |-> to, nlines |-> nlines]

\* The bytes of the buffers bufs[t ..], in order.
RECURSIVE write_buffers(_, _)
write_buffers(bufs, t) ==
  IF Len(bufs) < t THEN <<>>
  ELSE Bytes(bufs[t].from, bufs[t].to) \o write_buffers(bufs, t + 1)

\* rawmemchr (beg, line_end) + 1, j times, in a buffer that ends at offset
\* to: the offset reached, or -1 when the search leaves the bytes read.
RECURSIVE skip_newlines(_, _, _, _)
skip_newlines(d, beg, to, j) ==
  IF j = 0 THEN beg
  ELSE IF \A k \in (beg + 1)..to : d[k] # line_end THEN -1
  ELSE skip_newlines(d, CHOOSE k \in (beg + 1)..to :
                          /\ d[k] = line_end
                          /\ \A x \in (beg + 1)..(k - 1) : d[x] # line_end,
                     to, j - 1)

\* What the search wrote if it left the buffer: no position of the input.
Overrun == <<-1>>

\* pipe_lines: print from the buffer bufs[t], after j newlines.
pipe_lines_write(bufs, t, beg) ==
  IF beg = -1 THEN Overrun
  ELSE Bytes(beg, bufs[t].to) \o write_buffers(bufs, t + 1)

\* pipe_lines that skips one delimiter more in the buffer it starts in.
RECURSIVE pipe_lines_skip_one_more(_, _, _, _, _)
pipe_lines_skip_one_more(d, bufs, t, total_lines, n_lines) ==
  IF total_lines - bufs[t].nlines > n_lines
  THEN pipe_lines_skip_one_more(d, bufs, t + 1,
                                total_lines - bufs[t].nlines, n_lines)
  ELSE pipe_lines_write(bufs, t,
         skip_newlines(d, bufs[t].from, bufs[t].to,
                       IF total_lines > n_lines
                       THEN total_lines - n_lines + 1
                       ELSE 0))

\* pipe_lines: skip over unneeded buffers.
RECURSIVE pipe_lines_skip(_, _, _, _, _)
pipe_lines_skip(d, bufs, t, total_lines, n_lines) ==
  IF total_lines - bufs[t].nlines > n_lines
  THEN pipe_lines_skip(d, bufs, t + 1, total_lines - bufs[t].nlines, n_lines)
  ELSE pipe_lines_write(bufs, t,
         skip_newlines(d, bufs[t].from, bufs[t].to,
                       IF total_lines > n_lines THEN total_lines - n_lines
                       ELSE 0))

\* pipe_lines that does not count a last line without delimiter.
pipe_lines_print_complete(d, bufs, total_lines, n_lines) ==
  IF bufs[Len(bufs)].to = bufs[Len(bufs)].from THEN <<>>
  ELSE IF n_lines = 0 THEN <<>>
  ELSE pipe_lines_skip(d, bufs, 1, total_lines, n_lines)

\* pipe_lines: after the last read.
pipe_lines_print(d, bufs, total_lines, n_lines) ==
  IF bufs[Len(bufs)].to = bufs[Len(bufs)].from THEN <<>>
  ELSE IF n_lines = 0 THEN <<>>
  ELSE IF d[bufs[Len(bufs)].to] # line_end
  THEN pipe_lines_skip(d, [bufs EXCEPT ![Len(bufs)].nlines = @ + 1], 1,
                       total_lines + 1, n_lines)
  ELSE pipe_lines_skip(d, bufs, 1, total_lines, n_lines)

\* pipe_lines: the reading loop; read k returns reads[k] bytes.
RECURSIVE pipe_lines_read(_, _, _, _, _, _)
pipe_lines_link(d, reads, k, linked, total_lines, n_lines) ==
  IF total_lines - linked[1].nlines > n_lines
  THEN pipe_lines_read(d, reads, k + 1, Tail(linked),
                       total_lines - linked[1].nlines, n_lines)
  ELSE pipe_lines_read(d, reads, k + 1, linked, total_lines, n_lines)

pipe_lines_got(d, reads, k, bufs, total_lines, n_lines, tmp) ==
  IF (tmp.to - tmp.from) + (bufs[Len(bufs)].to - bufs[Len(bufs)].from)
       < BufSize
  THEN pipe_lines_read(d, reads, k + 1,
                       [bufs EXCEPT ![Len(bufs)].to = tmp.to,
                                    ![Len(bufs)].nlines = @ + tmp.nlines],
                       total_lines + tmp.nlines, n_lines)
  ELSE pipe_lines_link(d, reads, k, Append(bufs, tmp),
                       total_lines + tmp.nlines, n_lines)

pipe_lines_read(d, reads, k, bufs, total_lines, n_lines) ==
  IF Len(reads) < k THEN pipe_lines_print(d, bufs, total_lines, n_lines)
  ELSE pipe_lines_got(d, reads, k, bufs, total_lines, n_lines,
                      Buffer(bufs[Len(bufs)].to,
                             bufs[Len(bufs)].to + reads[k],
                             Newlines(d, bufs[Len(bufs)].to,
                                      bufs[Len(bufs)].to + reads[k])))

\* pipe_lines on the input d read from offset off, in reads of the sizes
\* given.
pipe_lines(d, off, reads, n_lines) ==
  pipe_lines_read(d, reads, 1, <<Buffer(off, off, 0)>>, 0, n_lines)

\* pipe_bytes that prints the whole of the first buffer it keeps.
RECURSIVE pipe_bytes_skip_whole(_, _, _, _)
pipe_bytes_skip_whole(bufs, t, total_bytes, n_bytes) ==
  IF total_bytes - (bufs[t].to - bufs[t].from) > n_bytes
  THEN pipe_bytes_skip_whole(bufs, t + 1,
                             total_bytes - (bufs[t].to - bufs[t].from),
                             n_bytes)
  ELSE write_buffers(bufs, t)

\* pipe_bytes: print the rest, from the buffer bufs[t].
RECURSIVE pipe_bytes_skip(_, _, _, _)
pipe_bytes_skip(bufs, t, total_bytes, n_bytes) ==
  IF total_bytes - (bufs[t].to - bufs[t].from) > n_bytes
  THEN pipe_bytes_skip(bufs, t + 1,
                       total_bytes - (bufs[t].to - bufs[t].from), n_bytes)
  ELSE Bytes(bufs[t].from + (IF total_bytes > n_bytes
                             THEN total_bytes - n_bytes ELSE 0),
             bufs[t].to)
         \o write_buffers(bufs, t + 1)

\* pipe_bytes: the reading loop.
RECURSIVE pipe_bytes_read(_, _, _, _, _)
pipe_bytes_link(reads, k, linked, total_bytes, n_bytes) ==
  IF total_bytes - (linked[1].to - linked[1].from) > n_bytes
  THEN pipe_bytes_read(reads, k + 1, Tail(linked),
                       total_bytes - (linked[1].to - linked[1].from), n_bytes)
  ELSE pipe_bytes_read(reads, k + 1, linked, total_bytes, n_bytes)

pipe_bytes_read(reads, k, bufs, total_bytes, n_bytes) ==
  IF Len(reads) < k THEN pipe_bytes_skip(bufs, 1, total_bytes, n_bytes)
  ELSE IF reads[k] + (bufs[Len(bufs)].to - bufs[Len(bufs)].from) < BufSize
  THEN pipe_bytes_read(reads, k + 1,
                       [bufs EXCEPT ![Len(bufs)].to = @ + reads[k]],
                       total_bytes + reads[k], n_bytes)
  ELSE pipe_bytes_link(reads, k,
                       Append(bufs, Buffer(bufs[Len(bufs)].to,
                                           bufs[Len(bufs)].to + reads[k], 0)),
                       total_bytes + reads[k], n_bytes)

\* pipe_bytes on an input read from offset off.
pipe_bytes(off, reads, n_bytes) ==
  pipe_bytes_read(reads, 1, <<Buffer(off, off, 0)>>, 0, n_bytes)

\* start_lines: the reading loop.  Returns [t, out, off]: the value
\* returned, what was written, and the offset the input is left at.
RECURSIVE start_lines_read(_, _, _, _, _)
start_lines_read(d, off, reads, k, n_lines) ==
  IF Len(reads) < k THEN [t |-> -1, out |-> <<>>, off |-> off]
  ELSE IF Newlines(d, off, off + reads[k]) < n_lines
  THEN start_lines_read(d, off + reads[k], reads, k + 1,
                        n_lines - Newlines(d, off, off + reads[k]))
  ELSE [t |-> 0,
        out |-> Bytes(skip_newlines(d, off, off + reads[k], n_lines),
                      off + reads[k]),
        off |-> off + reads[k]]

start_lines(d, off, reads, n_lines) ==
  IF n_lines = 0 THEN [t |-> 0, out |-> <<>>, off |-> off]
  ELSE start_lines_read(d, off, reads, 1, n_lines)

\* start_bytes: the reading loop.
RECURSIVE start_bytes_read(_, _, _, _)
start_bytes_read(off, reads, k, n_bytes) ==
  IF ~(0 < n_bytes) THEN [t |-> 0, out |-> <<>>, off |-> off]
  ELSE IF Len(reads) < k THEN [t |-> -1, out |-> <<>>, off |-> off]
  ELSE IF reads[k] <= n_bytes
  THEN start_bytes_read(off + reads[k], reads, k + 1, n_bytes - reads[k])
  ELSE [t |-> 0, out |-> Bytes(off + n_bytes, off + reads[k]),
        off |-> off + reads[k]]

start_bytes(off, reads, n_bytes) == start_bytes_read(off, reads, 1, n_bytes)

\* tail_lines and tail_bytes with from_start: after start_lines or
\* start_bytes returned r.
copy_after_start(d, r) ==
  IF r.t # 0 THEN r.out
  ELSE r.out \o copy_remainder(d, r.off, COPY_TO_EOF)

\* STP_BLKSIZE (&stats).
BlkSize == 2

\* An input: a regular file d open at offset start_pos, of which fstat and
\* lseek (SEEK_END) report the size end_pos (it may have grown since), or a
\* pipe that delivers d; reads are the sizes of the reads until end of file.
\* tail_lines of input x.
tail_lines(x, n_lines) ==
  IF x.from_start
  THEN IF n_lines = UINTMAX_MAX /\ S_ISREG(x.kind)
          /\ 0 <= lseek(Len(x.d), x.start_pos, SEEK_END, 0)
       THEN <<>>
       ELSE copy_after_start(x.d,
                             start_lines(x.d, x.start_pos, x.reads, n_lines))
  ELSE IF S_ISREG(x.kind) /\ x.start_pos < x.end_pos
  THEN file_lines(x.d, x.end_pos, n_lines, x.start_pos, x.end_pos)
  ELSE pipe_lines(x.d, x.start_pos, x.reads, n_lines)

\* tail_bytes: the output copied from the current position.
tail_bytes_copy(x, n_bytes, current_pos) ==
  copy_remainder(x.d,
                 IF current_pos < x.end_pos
                    /\ n_bytes < x.end_pos - current_pos
                 THEN x.end_pos - n_bytes ELSE current_pos,
                 n_bytes)

\* tail_bytes of input x.
tail_bytes(x, n_bytes) ==
  IF x.from_start
  THEN IF n_bytes <= OFF_T_MAX /\ S_ISREG(x.kind)
       THEN copy_remainder(x.d, x.start_pos + n_bytes, COPY_TO_EOF)
       ELSE copy_after_start(x.d, start_bytes(x.start_pos, x.reads, n_bytes))
  ELSE IF n_bytes <= OFF_T_MAX /\ S_ISREG(x.kind) /\ BlkSize < x.end_pos
  THEN tail_bytes_copy(x, n_bytes, x.start_pos)
  ELSE pipe_bytes(x.start_pos, x.reads, n_bytes)

\* main that skips n_units items.
SkipUnits_all(from_start, n_units) == n_units

\* main: with from_start, skip n_units - 1 items; +0 is treated as +1.
SkipUnits(from_start, n_units) ==
  IF from_start /\ 0 < n_units /\ n_units < UINTMAX_MAX THEN n_units - 1
  ELSE n_units

\* tail: the output for input x.
tail(x) ==
  IF x.count_lines THEN tail_lines(x, SkipUnits(x.from_start, x.n_units))
  ELSE tail_bytes(x, SkipUnits(x.from_start, x.n_units))

(***************************************************************************)
(* The same functions, for the two positions they leave: *read_pos, which  *)
(* tail_file records as the size, and the offset of the descriptor.        *)
(***************************************************************************)
Pos(read_pos, off) == [read_pos |-> read_pos, off |-> off]

\* The number of bytes dump_remainder reads from offset off.
dump_count(d, off, n_bytes) == Len(copy_remainder(d, off, n_bytes))

\* file_lines: the do-while loop, with the buffer read at offset pos.
RECURSIVE file_lines_loop_pos(_, _, _, _, _, _, _)
file_lines_next_pos(d, start_pos, end_pos, bufsize, pos, bytes_read, r) ==
  IF r.found
  THEN Pos((pos + bytes_read)
             + dump_count(d, pos + bytes_read, end_pos - (pos + bytes_read)),
           (pos + bytes_read)
             + dump_count(d, pos + bytes_read, end_pos - (pos + bytes_read)))
  ELSE IF pos = start_pos
  THEN Pos(start_pos + dump_count(d, start_pos, end_pos),
           lseek(Len(d), pos + bytes_read, start_pos, SEEK_SET)
             + dump_count(d, start_pos, end_pos))
  ELSE IF read_at(d, pos - bufsize, bufsize) = 0
  THEN Pos(pos - bufsize, lseek(Len(d), pos + bytes_read, pos - bufsize,
                                SEEK_SET))
  ELSE file_lines_loop_pos(d, start_pos, end_pos, bufsize, pos - bufsize,
                           read_at(d, pos - bufsize, bufsize), r.n_lines)

file_lines_loop_pos(d, start_pos, end_pos, bufsize, pos, bytes_read, n_lines) ==
  file_lines_next_pos(d, start_pos, end_pos, bufsize, pos, bytes_read,
                      file_lines_scan(d, pos, bytes_read, n_lines))

file_lines_first_pos(d, n_lines, start_pos, end_pos, bufsize, pos, bytes_read) ==
  file_lines_loop_pos(d, start_pos, end_pos, bufsize, pos, bytes_read,
                      IF bytes_read # 0 /\ d[pos + bytes_read] # line_end
                      THEN n_lines - 1 ELSE n_lines)

file_lines_buf_pos(d, n_lines, start_pos, end_pos, bufsize, bytes_read) ==
  file_lines_first_pos(d, n_lines, start_pos, end_pos, bufsize,
                       end_pos - bytes_read,
                       read_at(d, end_pos - bytes_read, bytes_read))

\* file_lines, entered with *read_pos = end_pos and the descriptor at end_pos.
file_lines_pos(d, st_size, n_lines, start_pos, end_pos, bufsize) ==
  IF n_lines = 0 THEN Pos(end_pos, end_pos)
  ELSE file_lines_buf_pos(d, n_lines, start_pos, end_pos, bufsize,
                          IF (end_pos - start_pos) % bufsize = 0 THEN bufsize
                          ELSE (end_pos - start_pos) % bufsize)

RECURSIVE Sum(_)
Sum(reads) == IF reads = <<>> THEN 0 ELSE Head(reads) + Sum(Tail(reads))

\* pipe_lines and pipe_bytes: *read_pos += n_read for every read, from 0.
pipe_pos(start_pos, reads) == Pos(Sum(reads), start_pos + Sum(reads))

\* tail_lines and tail_bytes with from_start, after start_lines or
\* start_bytes returned r having read r.off - start_pos bytes.
start_pos_after(d, start_pos, r) ==
  IF r.t # 0 THEN Pos(r.off - start_pos, r.off)
  ELSE Pos((r.off - start_pos) + dump_count(d, r.off, COPY_TO_EOF),
           r.off + dump_count(d, r.off, COPY_TO_EOF))

tail_lines_pos(x, n_lines) ==
  IF x.from_start
  THEN IF n_lines = UINTMAX_MAX /\ S_ISREG(x.kind)
          /\ 0 <= lseek(Len(x.d), x.start_pos, SEEK_END, 0)
       THEN Pos(lseek(Len(x.d), x.start_pos, SEEK_END, 0),
                lseek(Len(x.d), x.start_pos, SEEK_END, 0))
       ELSE start_pos_after(x.d, x.start_pos,
                            start_lines(x.d, x.start_pos, x.reads, n_lines))
  ELSE IF S_ISREG(x.kind) /\ x.start_pos < x.end_pos
  THEN file_lines_pos(x.d, x.end_pos, n_lines, x.start_pos, x.end_pos,
                      IF x.end_pos % PageSize = 0 /\ BufSize < PageSize
                      THEN PageSize ELSE BufSize)
  ELSE pipe_pos(x.start_pos, x.reads)

\* tail_bytes: the seek path, from current_pos.
tail_bytes_copy_pos(x, n_bytes, current_pos) ==
  Pos(current_pos + dump_count(x.d, current_pos, n_bytes),
      current_pos + dump_count(x.d, current_pos, n_bytes))

tail_bytes_pos(x, n_bytes) ==
  IF x.from_start
  THEN IF n_bytes <= OFF_T_MAX /\ S_ISREG(x.kind)
       THEN Pos(n_bytes + dump_count(x.d, x.start_pos + n_bytes, COPY_TO_EOF),
                lseek(Len(x.d), x.start_pos, n_bytes, SEEK_CUR)
                  + dump_count(x.d, x.start_pos + n_bytes, COPY_TO_EOF))
       ELSE start_pos_after(x.d, x.start_pos,
                            start_bytes(x.start_pos, x.reads, n_bytes))
  ELSE IF n_bytes <= OFF_T_MAX /\ S_ISREG(x.kind) /\ BlkSize < x.end_pos
  THEN tail_bytes_copy_pos(x, n_bytes,
                           IF x.start_pos < x.end_pos
                              /\ n_bytes < x.end_pos - x.start_pos
                           THEN x.end_pos - n_bytes ELSE x.start_pos)
  ELSE pipe_pos(x.start_pos, x.reads)

\* tail: *read_pos and the offset of the descriptor when it returns.
tail_pos(x) ==
  IF x.count_lines THEN tail_lines_pos(x, SkipUnits(x.from_start, x.n_units))
  ELSE tail_bytes_pos(x, SkipUnits(x.from_start, x.n_units))

\* The longest input, the largest count and the largest starting offset.
MaxLen == 6
MaxCount == 4
MaxStart == 2

Contents == UNION {[1..k -> {"a", line_end}] : k \in 0..MaxLen}

\* The ways n bytes arrive in reads of 1 .. BufSize bytes.
RECURSIVE Splits(_)
Splits(n) ==
  IF n = 0 THEN {<<>>}
  ELSE UNION {{<<c>> \o r : r \in Splits(n - c)} : c \in 1..Min(n, BufSize)}

\* The reads of a regular file: full buffers, then the rest.
RECURSIVE FullReads(_)
FullReads(n) ==
  IF n <= 0 THEN <<>>
  ELSE <<Min(n, BufSize)>> \o FullReads(n - Min(n, BufSize))

Regular(d, start_pos, end_pos) ==
  [kind |-> "REG", d |-> d, start_pos |-> start_pos, end_pos |-> end_pos,
   reads |-> FullReads(Len(d) - start_pos)]

Pipe(d, reads) ==
  [kind |-> "FIFO", d |-> d, start_pos |-> 0, end_pos |-> 0, reads |-> reads]

Inputs ==
  UNION {{Regular(d, s, e) : s \in 0..Min(MaxStart, Len(d)),
                             e \in {Len(d) - 1, Len(d)} \cap Nat} :
           d \in Contents}
  \cup UNION {{Pipe(d, r) : r \in Splits(Len(d))} : d \in Contents}

Call(x, count_lines, from_start, n_units) ==
  [fn |-> "tail", kind |-> x.kind, d |-> x.d, start_pos |-> x.start_pos,
   end_pos |-> x.end_pos, reads |-> x.reads, count_lines |-> count_lines,
   from_start |-> from_start, n_units |-> n_units, done |-> FALSE,
   out |-> <<>>, pos |-> Pos(0, x.start_pos)]

\* A call of tail on any input with any options.
TailInit ==
  /\ MainInit
  /\ cfg = CHOOSE c \in Configs : c.nbpids = 0
  /\ calc \in {Call(x, lines, start, units) :
                x \in Inputs, lines \in BOOLEAN, start \in BOOLEAN,
                units \in 0..MaxCount \cup {UINTMAX_MAX}}

TailLines ==
  /\ calc.fn = "tail" /\ ~calc.done /\ calc.count_lines
  /\ calc' = [calc EXCEPT !.done = TRUE, !.out = tail(calc),
                          !.pos = tail_pos(calc)]
  /\ UNCHANGED <<cfg, shown, disable_inotify, envvars, F, fdt, ok, pc, idx,
                 pollvars, kw, evq, ht, inolocals, exitst, trace>>

TailBytes ==
  /\ calc.fn = "tail" /\ ~calc.done /\ ~calc.count_lines
  /\ calc' = [calc EXCEPT !.done = TRUE, !.out = tail(calc),
                          !.pos = tail_pos(calc)]
  /\ UNCHANGED <<cfg, shown, disable_inotify, envvars, F, fdt, ok, pc, idx,
                 pollvars, kw, evq, ht, inolocals, exitst, trace>>

TailNext == TailLines \/ TailBytes

SpecTail == TailInit /\ [][TailNext]_vars

(***************************************************************************)
(* The reading loop of pipe_lines and pipe_bytes, one read at a time.  The *)
(* list first .. last is the sequence bufs of [nbytes, nlines]; total is   *)
(* total_lines or total_bytes.                                             *)
(***************************************************************************)
\* The most reads of one run of the loop.
MaxReads == 5

\* pipe_lines: link the new buffer, "then either free up the oldest buffer
\* for the next read if that would leave enough lines, or else malloc".
pipe_lines_reuse(linked, total_lines, n_lines) ==
  IF total_lines - linked[1].nlines > n_lines
  THEN [bufs |-> Tail(linked), total |-> total_lines - linked[1].nlines]
  ELSE [bufs |-> linked, total |-> total_lines]

\* pipe_lines: one iteration of the loop after a read into tmp.
pipe_lines_append(bufs, total_lines, n_lines, tmp) ==
  IF tmp.nbytes + bufs[Len(bufs)].nbytes < BufSize
  THEN [bufs |-> [bufs EXCEPT ![Len(bufs)].nbytes = @ + tmp.nbytes,
                              ![Len(bufs)].nlines = @ + tmp.nlines],
        total |-> total_lines + tmp.nlines]
  ELSE pipe_lines_reuse(Append(bufs, tmp), total_lines + tmp.nlines, n_lines)

\* pipe_bytes that allocates a buffer for every read it links.
pipe_bytes_reuse_never(linked, total_bytes, n_bytes) ==
  [bufs |-> linked, total |-> total_bytes]

\* pipe_bytes: link the new buffer, then free up the oldest one or malloc.
pipe_bytes_reuse(linked, total_bytes, n_bytes) ==
  IF total_bytes - linked[1].nbytes > n_bytes
  THEN [bufs |-> Tail(linked), total |-> total_bytes - linked[1].nbytes]
  ELSE [bufs |-> linked, total |-> total_bytes]

\* pipe_bytes: one iteration of the loop after a read into tmp.
pipe_bytes_append(bufs, total_bytes, n_bytes, tmp) ==
  IF tmp.nbytes + bufs[Len(bufs)].nbytes < BufSize
  THEN [bufs |-> [bufs EXCEPT ![Len(bufs)].nbytes = @ + tmp.nbytes],
        total |-> total_bytes + tmp.nbytes]
  ELSE pipe_bytes_reuse(Append(bufs, tmp), total_bytes + tmp.nbytes, n_bytes)

\* Before the first read: first = last, an empty buffer.
PipeInit ==
  /\ MainInit
  /\ cfg = CHOOSE c \in Configs : c.nbpids = 0
  /\ calc \in {[fn |-> "pipe", count_lines |-> lines, n_units |-> units,
                bufs |-> <<[nbytes |-> 0, nlines |-> 0]>>, total |-> 0,
                n_reads |-> 0] :
                lines \in BOOLEAN, units \in 0..MaxCount}

PipeStep(r) ==
  /\ calc' = [calc EXCEPT !.bufs = r.bufs, !.total = r.total,
                          !.n_reads = @ + 1]
  /\ UNCHANGED <<cfg, shown, disable_inotify, envvars, F, fdt, ok, pc, idx,
                 pollvars, kw, evq, ht, inolocals, exitst, trace>>

\* safe_read returns n_read bytes, nlines of them line_end.
PipeLinesRead ==
  /\ calc.fn = "pipe" /\ calc.count_lines /\ calc.n_reads < MaxReads
  /\ \E n_read \in 1..BufSize : \E nlines \in 0..n_read :
       PipeStep(pipe_lines_append(calc.bufs, calc.total, calc.n_units,
                                  [nbytes |-> n_read, nlines |-> nlines]))

PipeBytesRead ==
  /\ calc.fn = "pipe" /\ ~calc.count_lines /\ calc.n_reads < MaxReads
  /\ \E n_read \in 1..BufSize :
       PipeStep(pipe_bytes_append(calc.bufs, calc.total, calc.n_units,
                                  [nbytes |-> n_read, nlines |-> 0]))

PipeNext == PipeLinesRead \/ PipeBytesRead

SpecPipe == PipeInit /\ [][PipeNext]_vars

(***************************************************************************)
(* The wait for events of tail_forever_inotify on its own.  The interval   *)
(* given with -s is sec seconds and q / Frac milliseconds; poll's timeout  *)
(* is an int of milliseconds.                                              *)
(***************************************************************************)
INT_MAX == 2147483647

\* The parts of a millisecond an interval is given in.
Frac == 4

\* The most processes watched by the runs of the wait.
MaxWaitPids == 2

\* The intervals -s accepts (0 <= s), around the values the code tests for.
SleepIntervals ==
  [sec : {0, 1, 2, INT_MAX \div 1000 - 2, INT_MAX \div 1000 - 1,
          INT_MAX \div 1000},
   q : 0..(Frac - 1)]

\* tail_forever_inotify: "How many ms to wait for changes.  -1 means wait
\* forever."
delay(pids, dead, sleep_interval) ==
  IF Len(pids) # 0
  THEN IF dead \/ (sleep_interval.sec = 0 /\ sleep_interval.q = 0) THEN 0
       ELSE IF sleep_interval.sec < INT_MAX \div 1000 - 1
       THEN \* delay = ddelay; delay += delay < ddelay;
            sleep_interval.sec * 1000 + B2I(sleep_interval.q > 0)
       ELSE -1
  ELSE -1

WaitInit ==
  /\ MainInit
  /\ cfg = CHOOSE c \in Configs : c.nbpids = 0
  /\ calc \in {[fn |-> "wait", sleep_interval |-> s, pids |-> p,
                writers_dead |-> FALSE, delay |-> -1, n_waits |-> 0,
                state |-> "loop"] :
                s \in SleepIntervals,
                p \in UNION {[1..k -> PidStates] : k \in 0..MaxWaitPids}}

WaitFrame ==
  UNCHANGED <<cfg, shown, disable_inotify, envvars, F, fdt, ok, pc, idx,
              pollvars, kw, evq, ht, inolocals, exitst, trace>>

\* One iteration of the do-while loop around poll that does not exit: poll
\* is called with the delay computed and returns after at most that time.
InoPollDo(dead) ==
  /\ calc' = [calc EXCEPT !.writers_dead = dead,
                          !.delay = delay(calc.pids, dead, calc.sleep_interval),
                          !.n_waits = 1]
  /\ WaitFrame

InoPoll ==
  /\ calc.fn = "wait" /\ calc.state = "loop"
  /\ ~(Len(calc.pids) # 0 /\ calc.writers_dead)
  /\ InoPollDo(IF Len(calc.pids) # 0 THEN writers_are_dead_of(calc.pids)
               ELSE calc.writers_dead)

\* if (writers_dead) exit (EXIT_SUCCESS);
InoPollExit ==
  /\ calc.fn = "wait" /\ calc.state = "loop"
  /\ Len(calc.pids) # 0 /\ calc.writers_dead
  /\ calc' = [calc EXCEPT !.state = "exit"]
  /\ WaitFrame

\* A watched process ends, or its user changes, during a wait.
WaitPidChange ==
  /\ calc.fn = "wait" /\ calc.state = "loop"
  /\ \E i \in 1..Len(calc.pids) : \E st \in {"eperm", "gone"} :
       /\ calc.pids[i] \notin {st, "gone"}
       /\ calc' = [calc EXCEPT !.pids[i] = st]
  /\ WaitFrame

WaitNext == InoPoll \/ InoPollExit \/ WaitPidChange

SpecWait == WaitInit /\ [][WaitNext]_vars

(***************************************************************************)
(* Properties.                                                             *)
(***************************************************************************)
\* The targets main has run tail_file on.
Settled(i) == pc # "tail_file" \/ i < idx

\* C1: between the operations of main and of both follow loops, every target
\* that tail_file has processed has exactly one of fd = -1 and errnum = 0.
C1_ExactlyOne == \A i \in 1..n_files : Settled(i) => valid_file_spec(F[i])

\* A target is in that state unless ignore_fifo_and_pipe
\* closed it, which leaves errnum at 0.
C1_ExactlyOneUnlessFifoIgnored ==
  \A i \in 1..n_files :
    Settled(i) =>
      \/ valid_file_spec(F[i])
      \/ F[i].name = "-" /\ F[i].ignore /\ F[i].fd = -1 /\ F[i].errnum = 0
          /\ S_ISFIFO(F[i].mode) /\ pc # "ignore_fifo"

\* The steps of the two follow loops.
InFollowLoop == pc \in {"poll", "ino_check", "ino_loop"}

\* Entry k of the step's trace is data read from a regular file.
IsRegData(tr, k) == tr[k].t = "data" /\ S_ISREG(inode[tr[k].ino].kind)

\* Before entry k, the step started target i afresh at offset 0: it found the
\* file truncated, or recheck adopted a new file.
StartedAfresh(tr, k, i) ==
  \E j \in 1..(k - 1) :
    /\ tr[j].t = "diag" /\ tr[j].i = i
    /\ tr[j].msg \in {"file truncated", "appeared", "replaced",
                      "become accessible"}

\* The step drained target i as entry k of its trace says: from the offset
\* start, with the stored size base before the drain.
DrainedFrom(tr, k, i, start, base) ==
  /\ tr[k].off = start
  /\ tr[k].bytes = SubSeq(inode[tr[k].ino].data, start + 1,
                          start + Len(tr[k].bytes))
  /\ F'[i].size = base + Len(tr[k].bytes)
  /\ fdt'[F'[i].fd].ino = tr[k].ino
  /\ fdt'[F'[i].fd].off = start + Len(tr[k].bytes)

\* C2: a drain of a regular file in a follow loop that reads k bytes adds k
\* to the stored size and outputs the k bytes of the file that start at the
\* offset the descriptor had before the drain.
C2_DrainIsContiguous ==
  [][InFollowLoop =>
       \A k \in 1..Len(trace') :
         IsRegData(trace', k) =>
           IF StartedAfresh(trace', k, trace'[k].i)
           THEN DrainedFrom(trace', k, trace'[k].i, 0, 0)
           ELSE DrainedFrom(trace', k, trace'[k].i,
                            fdt[F[trace'[k].i].fd].off,
                            F[trace'[k].i].size)]_vars

\* A follow loop has just drained two bytes of a regular file at once.
C2_Drained ==
  /\ pc \in {"poll", "ino_loop"}
  /\ \E k \in 1..Len(trace) : IsRegData(trace, k) /\ Len(trace[k].bytes) = 2
                               /\ trace[k].off > 0

\* Target i holds a descriptor on a regular file with bytes not yet read.
Unread(i) ==
  /\ i <= n_files
  /\ IsOpen(fdt, F[i].fd)
  /\ S_ISREG(inode[fdt[F[i].fd].ino].kind)
  /\ fdt[F[i].fd].off < Len(inode[fdt[F[i].fd].ino].data)

\* C3: in the polling loop, the bytes appended to the regular local file of a
\* target that is not ignored are eventually all read and output (C2), unless
\* the loop ends or the target loses its descriptor: while the loop keeps
\* iterating, no unread suffix stays unread for ever.
C3_AppendedIsOutput ==
  \A i \in 1..2 :
    (pc = "poll" /\ Unread(i) /\ ~F[i].ignore /\ ~F[i].remote)
      ~> (pc = "exit" \/ ~Unread(i))

\* The polling loop has just output a byte appended to a file it opened at
\* the start, and nothing of that file is left unread.
C3_AppendedWasOutput ==
  /\ pc = "poll"
  /\ \E k \in 1..Len(trace) :
       /\ IsRegData(trace, k)
       /\ trace[k].ino \in {3, 4}
       /\ trace[k].bytes[Len(trace[k].bytes)] > 3
       /\ ~F[trace[k].i].ignore /\ ~F[trace[k].i].remote
       /\ ~Unread(trace[k].i)

\* Entry k of the step's trace is the first call of recheck on its target.
FirstRecheck(tr, k) ==
  /\ tr[k].t = "recheck"
  /\ \A j \in 1..(k - 1) : ~(tr[j].t = "recheck" /\ tr[j].i = tr[k].i)

\* Target i holds a descriptor on the file it recorded, and its name now
\* opens to another file.
NameOpensToOther(i) ==
  /\ IsOpen(fdt, F[i].fd)
  /\ fdt[F[i].fd].ino = F[i].ino
  /\ dir[F[i].name].ino # 0
  /\ dir[F[i].name].ino # F[i].ino
  /\ FreeFds(fdt) # {}

\* recheck would take the file the name of target i opens to: it is of a
\* tailable type and, while inotify is in use, it is not reached through a
\* symbolic link and is not on a remote file system.
Tailable(i) ==
  /\ IS_TAILABLE_FILE_TYPE(inode[dir[F[i].name].ino].kind)
  /\ disable_inotify \/ ~IsSymlink(F[i].name)
  /\ disable_inotify \/ ~inode[dir[F[i].name].ino].remote

\* After entry k the step's trace shows target i adopting the file its name
\* opens to: the diagnostic, then recheck returning with the new descriptor
\* at offset 0, size 0 and the old descriptor closed, and data of the target
\* only after the diagnostic and only from the new file.
Adopted(tr, k, i) ==
  /\ \E d \in (k + 1)..Len(tr) :
       /\ tr[d].t = "diag" /\ tr[d].i = i /\ tr[d].msg = "replaced"
       /\ \E e \in (d + 1)..Len(tr) :
            /\ tr[e].t = "rechecked" /\ tr[e].i = i /\ tr[e].how = "replaced"
            /\ tr[e].fd # F[i].fd /\ tr[e].fd # -1
            /\ tr[e].ino = dir[F[i].name].ino
            /\ tr[e].open_ino = dir[F[i].name].ino
            /\ tr[e].size = 0 /\ tr[e].off = 0
            /\ ~tr[e].held_open
       /\ \A x \in 1..Len(tr) :
            (tr[x].t = "data" /\ tr[x].i = i) =>
              (x > d /\ tr[x].ino = dir[F[i].name].ino)

\* C4 for any new file: following by name, a recheck of a target whose name
\* opens to another (dev, ino) than the descriptor it holds adopts the new
\* file.
C4_AdoptsAnyOther ==
  [][follow_mode = "name" =>
       \A k \in 1..Len(trace') :
         (FirstRecheck(trace', k) /\ NameOpensToOther(trace'[k].i))
           => Adopted(trace', k, trace'[k].i)]_vars

\* C4 for a new file that recheck accepts: it adopts the new file; the old
\* descriptor is closed, the new one starts at offset 0 with size 0, and the
\* "has been replaced" diagnostic precedes all output of the new file.
C4_AdoptsTailable ==
  [][follow_mode = "name" =>
       \A k \in 1..Len(trace') :
         (FirstRecheck(trace', k) /\ NameOpensToOther(trace'[k].i)
          /\ Tailable(trace'[k].i))
           => Adopted(trace', k, trace'[k].i)]_vars

\* recheck has just adopted the file that replaced the one it held, and
\* output its first byte.
C4_AdoptedNewFile ==
  /\ follow_mode = "name"
  /\ \E e \in 1..Len(trace) :
       /\ trace[e].t = "rechecked" /\ trace[e].how = "replaced"
       /\ \E x \in (e + 1)..Len(trace) :
            trace[x].t = "data" /\ trace[x].i = trace[e].i /\ trace[x].off = 0

\* The steps of tail_forever and of tail_forever_inotify.
InFollow == InFollowLoop \/ pc = "ino_watch"

\* C5: following by descriptor, neither loop calls recheck on a target that
\* holds a descriptor, and a step of a loop leaves such a target with the
\* same descriptor on the same open file and the same stored (dev, ino);
\* what it outputs for the target is data of that file, whatever the name
\* of the target refers to by then.
C5_DescriptorIsKept ==
  [][(follow_mode = "descriptor" /\ InFollow) =>
       \A i \in 1..n_files :
         /\ \A k \in 1..Len(trace') :
              ~(trace'[k].t = "recheck" /\ trace'[k].i = i
                /\ trace'[k].held # -1)
         /\ F[i].fd # -1 =>
              /\ F'[i].fd = F[i].fd
              /\ F'[i].ino = F[i].ino /\ F'[i].dev = F[i].dev
              /\ IsOpen(fdt, F[i].fd) /\ IsOpen(fdt', F[i].fd)
              /\ fdt[F[i].fd].ino = F[i].ino
              /\ fdt'[F[i].fd].ino = F[i].ino
              /\ \A k \in 1..Len(trace') :
                   (trace'[k].t = "data" /\ trace'[k].i = i)
                     => trace'[k].ino = F[i].ino]_vars

\* Following by descriptor, a loop has just output a byte appended to the
\* file a target holds after another file took its name.
C5_OutputOfRenamedFile ==
  /\ follow_mode = "descriptor"
  /\ InFollowLoop
  /\ \E k \in 1..Len(trace) :
       /\ trace[k].t = "data"
       /\ trace[k].ino = F[trace[k].i].ino
       /\ F[trace[k].i].name \in Names
       /\ dir[F[trace[k].i].name].ino \notin {0, trace[k].ino}
       /\ inode[trace[k].ino].links = 0
       /\ trace[k].off > 0

\* Entry k of the step's trace is an fstat of a regular target that reports
\* a size below the stored size.
SawTruncation(tr, k) ==
  tr[k].t = "fstat" /\ tr[k].reg /\ tr[k].st_size < tr[k].size

\* After entry k the step reports the truncation of target i and then
\* outputs the file from offset 0 to its end (only the header and the entry
\* of the drain itself may come before the data), leaving the stored size and
\* the offset of the descriptor at the length of the file.
Restarted(tr, k, i) ==
  /\ k < Len(tr)
  /\ tr[k + 1] = [t |-> "diag", i |-> i, msg |-> "file truncated"]
  /\ IsOpen(fdt', F'[i].fd)
  /\ F'[i].fd = F[i].fd
  /\ F'[i].size = Len(inode[fdt'[F'[i].fd].ino].data)
  /\ fdt'[F'[i].fd].off = F'[i].size
  /\ F'[i].size > 0 =>
       \E x \in (k + 2)..Len(tr) :
         /\ tr[x].t = "data" /\ tr[x].i = i /\ tr[x].off = 0
         /\ tr[x].bytes = inode[fdt'[F'[i].fd].ino].data
         /\ \A y \in (k + 2)..(x - 1) : tr[y].t \in {"hdr", "drain"}

\* C6: in both loops, when fstat on the descriptor of a regular target
\* reports a size below the stored size, the loop reports "file truncated",
\* seeks to offset 0 and sets the stored size to 0 before it drains, so the
\* whole current content of the file is output next.
C6_TruncationRestarts ==
  [][InFollowLoop =>
       \A k \in 1..Len(trace') :
         SawTruncation(trace', k) => Restarted(trace', k, trace'[k].i)]_vars

\* A loop has just found a file truncated and output its new content from
\* the first byte.
C6_Restarted ==
  /\ InFollowLoop
  /\ \E k \in 1..Len(trace) :
       /\ SawTruncation(trace, k)
       /\ \E x \in (k + 1)..Len(trace) :
            /\ trace[x].t = "data" /\ trace[x].i = trace[k].i
            /\ trace[x].off = 0 /\ Len(trace[x].bytes) > 0

\* C7: once a target has ignore set, no step of either follow loop calls
\* recheck on it (which opens its name), gives it a watch descriptor, or
\* clears the flag.
C7_IgnoreIsPermanent ==
  [][InFollow =>
       \A i \in 1..n_files :
         F[i].ignore =>
           /\ F'[i].ignore
           /\ F'[i].wd \in {F[i].wd, -1}
           /\ \A k \in 1..Len(trace') :
                ~(trace'[k].t = "recheck" /\ trace'[k].i = i)]_vars

\* The fields of the targets that tail_forever reads.
Fields(f) ==
  <<f.fd, f.size, f.mtime, f.dev, f.ino, f.mode, f.errnum, f.ignore>>

\* C8: when tail_forever_inotify has returned to main, the next step of the
\* program is the entry of tail_forever on the same targets, with the fields
\* of every target as tail_forever_inotify left them and with disable_inotify
\* set; and that step is taken.
C8_ReturnRevertsToPolling ==
  /\ [][pc = "returned" =>
          /\ \A i \in 1..n_files : Fields(F'[i]) = Fields(F[i])
          /\ Len(F') = Len(F)
          /\ \/ pc' = "returned" /\ disable_inotify' = disable_inotify
             \/ pc' = "poll" /\ idx' = 1 /\ disable_inotify']_vars
  /\ (pc = "returned") ~> (pc = "poll")

\* tail_forever starts after tail_forever_inotify returned, with a target
\* that tail_forever_inotify left ignored and closed.
C8_RevertedToPolling ==
  /\ pc = "poll" /\ idx = 1
  /\ disable_inotify /\ ~cfg.no_inotify
  /\ Len(trace) = 1 /\ trace[1].t = "diag"
  /\ trace[1].msg = "reverting to polling"
  /\ \E i \in 1..n_files : F[i].ignore /\ F[i].fd = -1 /\ F[i].errnum = -1

\* No target has a descriptor and none is eligible for retry.
NoneLive ==
  \A i \in 1..n_files :
    F[i].fd = -1 /\ (F[i].ignore \/ ~reopen_inaccessible_files)

\* tail_forever takes the step that ends an iteration of its while loop.
EndsIteration == pc = "poll" /\ idx > n_files /\ <<pc, idx>>' # <<pc, idx>>

\* The step is the fatal exit with "no files remaining".
NoFilesRemaining ==
  /\ pc' = "exit" /\ exitst' = "failure"
  /\ trace' = <<[t |-> "diag", i |-> 0, msg |-> "no files remaining"]>>

\* C9 for every mode: an iteration of the polling loop that ends with no
\* target open and none eligible for retry exits with "no files remaining".
C9_ExitsInEveryMode ==
  [][(EndsIteration /\ NoneLive) => NoFilesRemaining]_vars

\* C9 without --retry together with --follow=name: the same; and with that
\* combination the polling loop never exits with "no files remaining".
C9_ExitsUnlessRetryByName ==
  [][EndsIteration =>
       IF reopen_inaccessible_files /\ follow_mode = "name"
       THEN ~NoFilesRemaining
       ELSE NoneLive => NoFilesRemaining]_vars

\* The polling loop has exited with "no files remaining" after the last open
\* target was closed and ignored.
C9_NoFilesRemained ==
  /\ pc = "exit" /\ exitst = "failure"
  /\ trace = <<[t |-> "diag", i |-> 0, msg |-> "no files remaining"]>>
  /\ \A i \in 1..n_files : F[i].fd = -1
  /\ \E i \in 1..n_files : F[i].ignore /\ F[i].size > 0

\* tail_forever takes the exit for dead writers.
ExitsForDeadWriters ==
  /\ pc = "poll" /\ pc' = "exit"
  /\ trace' = <<[t |-> "writers dead", i |-> 0]>>

\* Target i holds a regular file with bytes that were in the file when the
\* writer ended and that have not been read.
UnreadAtDeath(i) ==
  /\ ~F[i].ignore
  /\ IsOpen(fdt, F[i].fd)
  /\ S_ISREG(inode[fdt[F[i].fd].ino].kind)
  /\ fdt[F[i].fd].off < inode[fdt[F[i].fd].ino].at_death

\* C10: tail_forever exits for dead writers only at the end of a pass that
\* began with writers_dead set and read no data, and then no target holds a
\* file with unread bytes that were written before the writer ended.
C10_NothingUnreadAtWriterDeath ==
  /\ [][ExitsForDeadWriters =>
          /\ idx > n_files /\ writers_dead /\ ~any_input
          /\ \A i \in 1..n_files : ~UnreadAtDeath(i)]_vars
  /\ [][(pc = "poll" /\ writers_dead' # writers_dead) =>
          (idx > n_files /\ idx' = 1 /\ ~any_input)]_vars
  /\ [][(pc = "poll" /\ pc' = "poll" /\ idx <= n_files) =>
          (any_input' <=> (any_input \/ \E k \in 1..Len(trace') :
                                          trace'[k].t = "data"))]_vars

FailedOtherwise(st) ==
  kill(st).ret # 0 /\ kill(st).errno \notin {ESRCH, EPERM}

\* kill (pid, 0) failed, and not for lack of permission.
FailedButPermitted(st) == kill(st).ret # 0 /\ kill(st).errno # EPERM

\* C12: writers_are_dead returns true only if kill
\* (pid, 0) on every watched process fails with an error that is neither
\* no such process nor permission denied.
C12_DeadOnOtherErrors ==
  (calc.fn = "writers_are_dead" /\ calc.done /\ calc.ret)
    => \A i \in 1..Len(calc.pids) : FailedOtherwise(calc.pids[i])

\* C12: writers_are_dead returns true exactly when at least one process is
\* watched and kill (pid, 0) fails on every watched process with an error
\* other than permission denied (no such process included); a process that
\* may not be signalled counts as alive.
C12_DeadUnlessPermitted ==
  (calc.fn = "writers_are_dead" /\ calc.done)
    => (calc.ret <=> /\ Len(calc.pids) # 0
                     /\ \A i \in 1..Len(calc.pids) :
                          FailedButPermitted(calc.pids[i]))

C12_AllWritersGone ==
  /\ calc.fn = "writers_are_dead" /\ calc.done /\ calc.ret
  /\ Len(calc.pids) = MaxPids

\* C13: the program exits with status 0 only if no error was reported
\* during the run: main's ok is cleared only together with a diagnostic of
\* the initial tail, so an exit with success leaves ok set, whichever loop
\* was running.
C13_SuccessOnlyWithoutError ==
  (pc = "exit" /\ exitst = "success") => ok

\* A loop of the follow phase ends the program because the writers are dead.
EndsForDeadWriters ==
  /\ pc' = "exit"
  /\ \/ ExitsForDeadWriters
     \/ (pc = "ino_loop" /\ ino_wait = "writers dead")

\* C14: when a loop ends the program because the writers are dead, the exit
\* status is success, in tail_forever as in tail_forever_inotify.
C14_DeadWritersExitWithSuccess ==
  [][EndsForDeadWriters => exitst' = "success"]_vars

\* The target standard output shows last before entry k of tr is written.
ShownBefore(tr, k) == Shown(SubSeq(tr, 1, k - 1), shown)

\* C15: with headers enabled, in every step of the initial tails and of
\* both loops, data is written only for the target that standard output
\* shows last (its header comes first when the target changes), and no
\* header is written for the target that standard output shows last.
C15_HeaderIffTargetChanges ==
  [][print_headers =>
       \A k \in 1..Len(trace') :
         /\ trace'[k].t = "data" => ShownBefore(trace', k) = trace'[k].i
         /\ trace'[k].t = "hdr" => ShownBefore(trace', k) # trace'[k].i]_vars

\* The number of lines at offsets a .. b - 1 of d: a last segment without
\* line_end counts as a line.
LineCount(d, a, b) ==
  Newlines(d, a, b) + (IF a < b /\ d[b] # line_end THEN 1 ELSE 0)

\* The offset at which the last k lines of the region [a, b) of d begin
\* (0 < k <= LineCount(d, a, b)).
LastLinesAt(d, a, b, k) ==
  CHOOSE s \in a..b : /\ s = a \/ d[s] = line_end
                      /\ LineCount(d, s, b) = k

\* The last min(n, L) lines of the region [a, b) of d.
LastLines(d, a, b, n) ==
  IF Min(n, LineCount(d, a, b)) = 0 THEN <<>>
  ELSE Bytes(LastLinesAt(d, a, b, Min(n, LineCount(d, a, b))), b)

\* tail_lines called file_lines.
RanFileLines ==
  /\ calc.fn = "tail" /\ calc.done /\ calc.count_lines /\ ~calc.from_start
  /\ S_ISREG(calc.kind) /\ calc.start_pos < calc.end_pos

\* C16: file_lines writes exactly the last min(N, L) lines of the region
\* [start_pos, end_pos) of the file, L being the number of lines of the
\* region with a last segment without delimiter counted as a line; for
\* N = 0 it writes nothing.
C16_FileLinesWritesLastLines ==
  RanFileLines =>
    calc.out = LastLines(calc.d, calc.start_pos, calc.end_pos, calc.n_units)

\* tail_lines called pipe_lines on a pipe.
RanPipeLines ==
  /\ calc.fn = "tail" /\ calc.done /\ calc.count_lines /\ ~calc.from_start
  /\ S_ISFIFO(calc.kind)

\* file_lines on a regular file that holds d, from offset 0 to its end;
\* tail_lines does not call it for an empty file.
FileLinesOf(d, n_lines) ==
  IF Len(d) = 0 THEN <<>>
  ELSE file_lines(d, Len(d), n_lines, 0, Len(d))

\* C17: for every input, every N and every split of the input into reads,
\* pipe_lines writes what file_lines writes on a regular file with the same
\* content.
C17_PipeLinesAsFileLines ==
  RanPipeLines => calc.out = FileLinesOf(calc.d, calc.n_units)

\* pipe_lines dropped buffers while reading, and the output begins inside
\* a buffer, in an input whose last line has no delimiter.
C17_PartialLastLine ==
  /\ RanPipeLines
  /\ Len(calc.d) = MaxLen /\ calc.d[MaxLen] # line_end
  /\ Len(calc.reads) > 3
  /\ calc.n_units = 2
  /\ Len(calc.out) = 3

\* tail_bytes called pipe_bytes on a pipe.
RanPipeBytes ==
  /\ calc.fn = "tail" /\ calc.done /\ ~calc.count_lines /\ ~calc.from_start
  /\ S_ISFIFO(calc.kind)

\* What tail_bytes copies after seeking, in a regular file that holds d and
\* is open at offset 0.
SeekBytesOf(d, n_bytes) == tail_bytes_copy(Regular(d, 0, Len(d)), n_bytes, 0)

\* C18: for every input of T bytes, every N and every split of the input
\* into reads, pipe_bytes writes exactly the last min(N, T) bytes, which is
\* what tail_bytes writes on a regular file with the same content when it
\* seeks.
C18_PipeBytesWritesLastBytes ==
  RanPipeBytes =>
    /\ calc.out = Bytes(Len(calc.d) - Min(calc.n_units, Len(calc.d)),
                        Len(calc.d))
    /\ calc.out = SeekBytesOf(calc.d, calc.n_units)

\* pipe_bytes read more buffers than it keeps, and the output begins inside
\* a buffer.
C18_LastBytesOfLongInput ==
  /\ RanPipeBytes
  /\ Len(calc.d) = MaxLen
  /\ calc.reads = <<1, 2, 2, 1>>
  /\ calc.n_units = 2
  /\ calc.out = <<MaxLen - 1, MaxLen>>

\* tail ran with a count given as +K.
RanFromStart == calc.fn = "tail" /\ calc.done /\ calc.from_start

\* The offset after the j-th line_end at or after offset a of d.
AfterLines(d, a, j) ==
  IF j = 0 THEN a
  ELSE CHOOSE s \in (a + 1)..Len(d) :
         d[s] = line_end /\ Newlines(d, a, s) = j

\* The input from unit K on: what is left after K - 1 lines, or bytes, of
\* the input read from offset a; nothing if the input has fewer.
FromUnit(d, a, lines, K) ==
  IF lines
  THEN IF Newlines(d, a, Len(d)) < K - 1 THEN <<>>
       ELSE Bytes(AfterLines(d, a, K - 1), Len(d))
  ELSE Bytes(a + K - 1, Len(d))

\* C19: with +K, K >= 1, tail writes the input from unit K on: it skips K - 1
\* lines that end with the delimiter, or K - 1 bytes, and writes nothing if
\* the input has fewer; +0 writes what +1 writes; the split of the input
\* into reads makes no difference.
C19_FromStartSkipsAllButOne ==
  RanFromStart =>
    /\ calc.n_units >= 1 =>
         calc.out = FromUnit(calc.d, calc.start_pos, calc.count_lines,
                             calc.n_units)
    /\ calc.n_units = 0 => calc.out = tail([calc EXCEPT !.n_units = 1])

\* start_lines skipped two lines that came in several reads, found the
\* second newline inside a read, and the rest was written.
C19_SkippedTwoLines ==
  /\ RanFromStart /\ calc.count_lines /\ S_ISFIFO(calc.kind)
  /\ calc.n_units = 3
  /\ calc.reads = <<2, 1, 2, 1>>
  /\ calc.out = <<5, 6>>

\* tail ran with +N in line mode on an input that does not change under it.
RanLinesFromStart ==
  /\ RanFromStart /\ calc.count_lines /\ calc.n_units >= 1
  /\ S_ISREG(calc.kind) => calc.end_pos = Len(calc.d)

\* The number M with N + M = L + 1, for the L lines of the input.
LinesLeft(x) == LineCount(x.d, x.start_pos, Len(x.d)) + 1 - x.n_units

\* C20: on an input of L lines (a last segment without delimiter counted),
\* for N >= 1 and M >= 0 with N + M = L + 1, tail with +N writes what tail
\* with the last M lines writes.
C20_FromStartIsLastLines ==
  (RanLinesFromStart /\ LinesLeft(calc) >= 0) =>
    calc.out = tail([calc EXCEPT !.from_start = FALSE,
                                 !.n_units = LinesLeft(calc)])

\* +3 on a file of four lines, the last without delimiter: the last two
\* lines are written.
C20_LastTwoOfFour ==
  /\ RanLinesFromStart /\ S_ISREG(calc.kind) /\ calc.start_pos = 0
  /\ calc.n_units = 3
  /\ LinesLeft(calc) = 2
  /\ calc.d[Len(calc.d)] # line_end
  /\ Len(calc.out) = 3

\* The constant c of a bound N + c * BUFSIZ on the memory of the buffers.
Slack == 3

\* C21 (as stated): during the reading loop of pipe_lines and pipe_bytes the
\* buffers held take at most N + c * BUFSIZ bytes, whatever the input.
C21_BuffersBoundedByCount ==
  calc.fn = "pipe" =>
    Len(calc.bufs) * BufSize <= calc.n_units + Slack * BufSize

\* C21 (amended): a read lengthens the list only while the buffers after the
\* first hold at most N lines (pipe_lines) or N bytes (pipe_bytes); for
\* pipe_bytes the buffers held take at most 2 * N + c * BUFSIZ bytes.
C21_GrowsWhileUnitsNeeded ==
  /\ [](calc.fn = "pipe" /\ ~calc.count_lines =>
          Len(calc.bufs) * BufSize <= 2 * calc.n_units + Slack * BufSize)
  /\ [][calc.fn = "pipe" /\ Len(calc'.bufs) > Len(calc.bufs) =>
          calc'.total - (IF calc.count_lines THEN calc'.bufs[1].nlines
                         ELSE calc'.bufs[1].nbytes) <= calc.n_units]_vars

\* Input without a delimiter: pipe_lines holds every buffer it read.
C21_KeepsInputWithoutDelimiter ==
  /\ calc.fn = "pipe" /\ calc.count_lines /\ calc.total = 0
  /\ calc.n_reads = MaxReads
  /\ Len(calc.bufs) * BufSize > calc.n_units + Slack * BufSize

\* ceil (sleep_interval * 1000).
CeilMs(sleep_interval) ==
  sleep_interval.sec * 1000 + (IF sleep_interval.q > 0 THEN 1 ELSE 0)

\* C22: in the notification loop every wait for events has a timeout of at
\* most ceil (sleep_interval * 1000) ms when a PID is watched (0 when the
\* interval is 0 or the writers are dead), for every interval accepted; the
\* wait is indefinite when no PID is watched.
C22_WaitIsBoundedWhenWatching ==
  calc.fn = "wait" /\ calc.n_waits > 0 =>
    IF Len(calc.pids) # 0
    THEN /\ 0 <= calc.delay
         /\ calc.delay <= CeilMs(calc.sleep_interval)
         /\ (calc.writers_dead \/ CeilMs(calc.sleep_interval) = 0
               => calc.delay = 0)
    ELSE calc.delay = -1

\* A call of tail -n +UINTMAX_MAX on a regular file has returned.
RanSkipAll ==
  /\ calc.fn = "tail" /\ calc.done /\ calc.count_lines /\ calc.from_start
  /\ calc.n_units = UINTMAX_MAX /\ S_ISREG(calc.kind)

\* C23: tail_lines with from_start and a count of UINTMAX_MAX on a seekable
\* descriptor leaves the descriptor at end of file and reports the end of
\* file as the read position, and writes nothing.
C23_SkipAllSeeksToEnd ==
  RanSkipAll =>
    /\ calc.pos.off = Len(calc.d)
    /\ calc.pos.read_pos = Len(calc.d)
    /\ calc.out = <<>>

\* The descriptors open for targets: every one but standard input.
TargetFds == {d \in FdSet \ {STDIN_FILENO} : IsOpen(fdt, d)}

\* C24: between the steps of either follow loop the descriptors open for
\* targets are exactly the fd fields that are not -1: each such field names
\* an open descriptor, no two targets share one, and every descriptor opened
\* for a target is recorded in its target.
C24_OpenDescriptorsAreRecorded ==
  InFollowLoop =>
    /\ \A i \in 1..n_files : F[i].fd # -1 => IsOpen(fdt, F[i].fd)
    /\ \A i, j \in 1..n_files :
         i # j /\ F[i].fd # -1 => F[i].fd # F[j].fd
    /\ \A d \in TargetFds : \E i \in 1..n_files : F[i].fd = d

\* C25: when the initial tail of a regular file returns, whatever function
\* printed it, the read position tail_file stores as the size is the offset
\* of the descriptor.
C25_SizeIsOffset ==
  calc.fn = "tail" /\ calc.done /\ S_ISREG(calc.kind) =>
    calc.pos.read_pos = calc.pos.off

\* Entry k of the step's trace is the return of a recheck that could not
\* open the name (the only errors of open and fstat in the model).
FailedRecheck(tr, k) == tr[k].t = "rechecked" /\ tr[k].errnum > 0

\* The entry of the call that returns at entry k.
CallOf(tr, k) ==
  CHOOSE c \in 1..(k - 1) :
    /\ tr[c].t = "recheck" /\ tr[c].i = tr[k].i
    /\ \A x \in (c + 1)..(k - 1) : tr[x].t # "recheck"

\* The diagnostics of the call that returns at entry k.
DiagsOf(tr, k) ==
  {x \in (CallOf(tr, k) + 1)..(k - 1) : tr[x].t = "diag"}

\* C26: without --retry, a recheck that fails to open the name marks the
\* target as ignored, and says "has become inaccessible" exactly when the
\* target was accessible before.
C26_FailureWithoutRetryIgnores ==
  ~reopen_inaccessible_files =>
    \A k \in 1..Len(trace) :
      FailedRecheck(trace, k) =>
        /\ trace[k].ignore
        /\ (trace[CallOf(trace, k)].errnum = 0
              <=> \E x \in DiagsOf(trace, k) :
                    trace[x].msg = "become inaccessible")

\* C27: with --retry, a recheck that fails to open the name leaves the
\* target with fd = -1, the errno in errnum and ignore as it was, and emits
\* a diagnostic exactly when the stored errnum was another one (0 for a
\* healthy target).
C27_FailureWithRetryDiagnosedOnChange ==
  reopen_inaccessible_files =>
    \A k \in 1..Len(trace) :
      FailedRecheck(trace, k) =>
        /\ trace[k].fd = -1
        /\ trace[k].ignore = trace[CallOf(trace, k)].ignore
        /\ (trace[CallOf(trace, k)].errnum # trace[k].errnum
              <=> Cardinality(DiagsOf(trace, k)) = 1)
        /\ Cardinality(DiagsOf(trace, k)) <= 1

\* The call returning at entry k found a healthy target: errnum 0, a
\* descriptor held, and the name opening to the file of that descriptor.
HealthySame(tr, k) ==
  /\ tr[k].t = "rechecked"
  /\ tr[CallOf(tr, k)].errnum = 0
  /\ tr[CallOf(tr, k)].held_ino # 0
  /\ tr[CallOf(tr, k)].new_ino = tr[CallOf(tr, k)].held_ino

\* The call returning at entry k changed nothing of the target, closed the
\* descriptor it opened, left the held one where it stood and said nothing.
LeftAsItWas(tr, k) ==
  /\ \A fld \in {"fd", "size", "mtime", "dev", "ino", "mode", "blocking",
                 "ignore", "n_unchanged_stats"} :
       tr[k].now[fld] = tr[CallOf(tr, k)].was[fld]
  /\ ~tr[k].new_open
  /\ tr[k].held_open
  /\ tr[k].off = tr[CallOf(tr, k)].held_off
  /\ DiagsOf(tr, k) = {}

\* C28: recheck on a healthy target whose name opens to the same device and
\* inode as the held descriptor leaves fd, size, mtime, dev, ino, mode,
\* blocking, ignore and the unchanged-stats counter as they were, closes the
\* descriptor it opened, does not move the held descriptor, and emits no
\* diagnostic.
C28_SameFileIsLeftAlone ==
  \A k \in 1..Len(trace) : HealthySame(trace, k) => LeftAsItWas(trace, k)

\* C28 (amended): the same, unless recheck runs with inotify enabled and
\* finds the name to be a symbolic link: then it gives the name up even if
\* the link leads to the file of the held descriptor.
C28_SameFileIsLeftAloneUnlessSymlink ==
  \A k \in 1..Len(trace) :
    /\ HealthySame(trace, k)
    /\ disable_inotify \/ ~trace[CallOf(trace, k)].lnk
    => LeftAsItWas(trace, k)

\* While polling, recheck found the name to be a symbolic link to the file
\* the target holds, after the target had read data, and left it alone.
C28_RecheckedSameFile ==
  \E k \in 1..Len(trace) :
    /\ HealthySame(trace, k)
    /\ trace[CallOf(trace, k)].lnk
    /\ disable_inotify
    /\ trace[k].how = "same"
    /\ trace[k].now.size > 0
    /\ LeftAsItWas(trace, k)

\* tail_forever_inotify is running.
NotificationRuns == pc \in {"ino_watch", "ino_check", "ino_loop"}

\* The part about remote files alone: while the notification back-end runs,
\* no target holds an open descriptor on a remote file system.
C29_NoRemoteWhileNotified ==
  NotificationRuns =>
    \A i \in 1..n_files :
      IsOpen(fdt, F[i].fd) => ~fremote(fdt, F[i].fd)

\* C29: while the notification back-end runs, no target holds an open
\* descriptor on a remote file system or one that was opened through a
\* symbolic link.
C29_NoRemoteNoSymlinkWhileNotified ==
  NotificationRuns =>
    \A i \in 1..n_files :
      IsOpen(fdt, F[i].fd) => ~fremote(fdt, F[i].fd) /\ ~fdt[F[i].fd].lnk

\* The call returning at entry k found the name to be a symbolic link, or to
\* open to a tailable file on a remote file system.
FoundRemoteOrSymlink(tr, k) ==
  /\ tr[k].t = "rechecked"
  /\ tr[CallOf(tr, k)].new_ino # 0
  /\ IS_TAILABLE_FILE_TYPE(inode[tr[CallOf(tr, k)].new_ino].kind)
  /\ tr[CallOf(tr, k)].lnk \/ inode[tr[CallOf(tr, k)].new_ino].remote

\* The part about recheck alone: with inotify enabled, a recheck that finds
\* the name remote or a symbolic link marks the target ignored and closes
\* its descriptor; with inotify disabled it does neither.
C29_RecheckGivesUpOnlyWhenNotified ==
  \A k \in 1..Len(trace) :
    FoundRemoteOrSymlink(trace, k) =>
      IF disable_inotify
      THEN /\ trace[k].now.fd # -1
           /\ trace[k].now.ignore => trace[CallOf(trace, k)].was.ignore
      ELSE /\ trace[k].now.ignore
           /\ trace[k].now.fd = -1
           /\ ~trace[k].new_open
           /\ ~trace[k].held_open

C29_GaveUpRemote ==
  \E k \in 1..Len(trace) :
    /\ FoundRemoteOrSymlink(trace, k)
    /\ ~trace[CallOf(trace, k)].lnk
    /\ ~disable_inotify
    /\ trace[CallOf(trace, k)].held_ino # 0

\* tail_forever finds target i as it was: same mode, same size if it is a
\* regular file, same mtime.
FoundUnchanged(i) ==
  /\ F[i].mode = fstat(fdt, F[i].fd).kind
  /\ ~S_ISREG(F[i].mode) \/ F[i].size = fstat(fdt, F[i].fd).size
  /\ F[i].mtime = fstat(fdt, F[i].fd).mtime

\* The step is a pass of tail_forever over target idx that observes it.
PollObserves ==
  /\ pc = "poll"
  /\ idx <= n_files
  /\ \E k \in 1..Len(trace') : trace'[k].t = "fstat"

PollRechecks == \E k \in 1..Len(trace') : trace'[k].t = "recheck"

PollReads == \E k \in 1..Len(trace') : trace'[k].t = "data"

\* C30: polling and following by name, recheck is called on an open target
\* exactly at the observation that finds it unchanged after
\* MaxUnchanged earlier consecutive unchanged observations, the (max+1)-th;
\* the counter is 0 after the recheck and after any observed change, and
\* one more after any other unchanged observation.
C30_RecheckAtThreshold ==
  [][PollObserves /\ follow_mode = "name" =>
       /\ F[idx].n_unchanged_stats <= MaxUnchanged
       /\ PollRechecks <=>
            FoundUnchanged(idx) /\ F[idx].n_unchanged_stats = MaxUnchanged
       /\ PollRechecks \/ ~FoundUnchanged(idx) \/ PollReads =>
            F'[idx].n_unchanged_stats = 0
       /\ ~PollRechecks /\ FoundUnchanged(idx) /\ ~PollReads =>
            F'[idx].n_unchanged_stats = F[idx].n_unchanged_stats + 1]_vars

\* tail_forever has just rechecked a name at the threshold and found it
\* rotated: the file is another one than the target held.
C30_RotationDetected ==
  /\ pc = "poll"
  /\ follow_mode = "name"
  /\ \E k \in 1..Len(trace) :
       /\ trace[k].t = "rechecked" /\ trace[k].how = "replaced"
       /\ trace[k].now.n_unchanged_stats = 0
       /\ \E j \in 1..(k - 1) : trace[j].t = "fstat" /\ trace[j].i = trace[k].i

\* tail_forever may use blocking input: one target, no PID watched,
\* following by descriptor, and the target is not a regular file.
BlockingIsEasy(e) ==
  n_files = 1 /\ nbpids = 0 /\ follow_mode = "descriptor" /\ ~e.reg

\* Entry k of tr is a drain of a target that was fstat-ed in this pass.
StatBefore(tr, k) ==
  \E j \in 1..(k - 1) : tr[j].t = "fstat" /\ tr[j].i = tr[k].i

\* C31: in the polling loop a target is drained with its blocking flag set
\* only if there is one target, no PID is watched, the mode is
\* follow-by-descriptor and the target is not a regular file; every other
\* drained target is non-blocking and was fstat-ed before the read.
C31_BlockingOnlyWhenEasy ==
  \A k \in 1..Len(trace) :
    trace[k].t = "drain" =>
      IF trace[k].blocking # 0 THEN BlockingIsEasy(trace[k])
      ELSE trace[k].nb /\ StatBefore(trace, k)

\* C31 (amended): the same, except that a regular file whose descriptor
\* refuses O_NONBLOCK (append-only attribute, EPERM) keeps its blocking flag
\* and is drained without fstat in every configuration.
C31_BlockingOnlyWhenEasyOrRefused ==
  \A k \in 1..Len(trace) :
    trace[k].t = "drain" =>
      IF trace[k].blocking # 0
      THEN BlockingIsEasy(trace[k]) \/ (trace[k].reg /\ trace[k].aonly)
      ELSE trace[k].nb /\ StatBefore(trace, k)

\* tail_forever drained its only target, not a regular file, in blocking
\* mode and without an fstat.
C31_DrainedBlocking ==
  \E k \in 1..Len(trace) :
    /\ trace[k].t = "drain" /\ trace[k].blocking # 0
    /\ BlockingIsEasy(trace[k])
    /\ ~StatBefore(trace, k)

\* Bytes a writer may add to a remote file between the fstat of a pass and
\* its read.
Late == 1

\* Entry k of tr is a drain in non-blocking mode after the fstat of the pass.
DrainAfterStat(tr, k) ==
  tr[k].t = "drain" /\ tr[k].blocking = 0 /\ StatBefore(tr, k)

\* What tail_forever asks dump_remainder for in the drain of entry e.
AskedFor(e) ==
  bytes_to_read([blocking |-> e.blocking, remote |-> e.remote,
                 size |-> e.size],
                IF e.reg THEN "REG" ELSE "FIFO", [size |-> e.st_size])

\* C32: in the polling loop the drain of a remote regular file reads at most
\* st_size (of this pass's fstat) minus the stored size, even if the file
\* holds more by the time it is read, so the stored size does not exceed
\* that st_size after the drain; a non-remote target in non-blocking mode
\* is drained to end of file.
C32_RemoteDrainBoundedByStat ==
  \A k \in 1..Len(trace) :
    DrainAfterStat(trace, k) =>
      IF trace[k].reg /\ trace[k].remote
      THEN /\ F[trace[k].i].size <= trace[k].st_size
           /\ \A avail \in 0..(trace[k].left + Late) :
                trace[k].size + ReadCount(avail, AskedFor(trace[k]))
                  <= trace[k].st_size
      ELSE ~trace[k].remote =>
             /\ F[trace[k].i].size = trace[k].size + trace[k].left
             /\ IsOpen(fdt, F[trace[k].i].fd) =>
                  DataLeft(fdt, F[trace[k].i].fd) = 0

\* tail_forever drained new data of a remote regular file up to the st_size
\* of its fstat.
C32_DrainedRemote ==
  \E k \in 1..Len(trace) :
    /\ DrainAfterStat(trace, k)
    /\ trace[k].reg /\ trace[k].remote
    /\ trace[k].size < trace[k].st_size
    /\ F[trace[k].i].size = trace[k].st_size

\* The step of the initialization diagnoses exhausted watch resources or an
\* unwatchable parent directory.
WatchDenied ==
  \E k \in 1..Len(trace') :
    /\ trace'[k].t = "diag"
    /\ trace'[k].msg \in {"inotify resources exhausted",
                          "cannot watch parent directory"}

\* The step is one of the loop that adds the watches, not one of the
\* environment.
AddsWatches == pc = "ino_watch" /\ budget' = budget

FirstCheck == pc = "ino_check" /\ budget' = budget /\ ~F[idx].ignore

\* C34: after the watches are installed and before the first wait for
\* events, every target that is not ignored is rechecked when following by
\* name and drained: unless tail_forever_inotify returns, no data of the
\* file the target holds is left unread, whatever was appended or replaced
\* since its initial tail.
C34_WindowDataIsDrained ==
  [][FirstCheck =>
       /\ follow_mode = "name" =>
            \E k \in 1..Len(trace') :
              trace'[k].t = "recheck" /\ trace'[k].i = idx
       /\ pc' \in {"ino_check", "ino_loop"} /\ IsOpen(fdt', F'[idx].fd) =>
            /\ fdt'[F'[idx].fd].off = Len(inode[fdt'[F'[idx].fd].ino].data)
            /\ S_ISREG(F'[idx].mode) =>
                 F'[idx].size = Len(inode[fdt'[F'[idx].fd].ino].data)]_vars

\* The check of the first of two targets has just written data that was
\* appended before its watch was installed: no event is queued for it.
C34_WroteWindowData ==
  /\ pc = "ino_check" /\ idx = 2
  /\ evq = <<>>
  /\ budget < MaxEnvOps
  /\ \E k \in 1..Len(trace) :
       /\ trace[k].t = "data" /\ trace[k].i = 1
       /\ trace[k].off > 0

\* tail_forever_inotify is at the top of its event loop.
AtLoopTop == pc = "ino_loop"

\* Target i holds a watch the kernel still has.
LiveWatch(i) == F[i].wd \in 1..Len(kw) /\ kw[F[i].wd] # 0

\* The first three parts: no two entries of the map have the same watch id,
\* every entry has wd >= 0 and is what a lookup of its wd finds, and no
\* target with wd -1 is in the map.
C35_MapEntriesAreDistinct ==
  AtLoopTop =>
    /\ \A d \in ht, e \in ht : F[d].wd = F[e].wd => d = e
    /\ \A e \in ht : F[e].wd >= 0 /\ hash_lookup(ht, F, F[e].wd) = e
    /\ \A i \in 1..n_files : F[i].wd = -1 => i \notin ht

\* C35: at every iteration boundary of the event loop no two entries of the
\* watch map have the same watch id, every entry has wd >= 0 and is what a
\* lookup of its wd finds, no target with wd -1 is in the map, and every
\* target that is not ignored and holds a live kernel watch is in the map.
C35_MapIsConsistent ==
  AtLoopTop =>
    /\ \A d \in ht, e \in ht : F[d].wd = F[e].wd => d = e
    /\ \A e \in ht : F[e].wd >= 0 /\ hash_lookup(ht, F, F[e].wd) = e
    /\ \A i \in 1..n_files : F[i].wd = -1 => i \notin ht
    /\ \A i \in 1..n_files : ~F[i].ignore /\ LiveWatch(i) => i \in ht

\* The step gives target i a watch id it did not have.
Registers(i) == budget' = budget /\ F'[i].wd # F[i].wd /\ F'[i].wd >= 0

\* C36: a target that registers a watch, while the watches are added or
\* after a directory event, is from then on the target the watch map gives
\* for that watch id, also when another target had the same id before.
C36_LastRegisteredOwnsWatch ==
  [][\A i \in 1..n_files :
       Registers(i) /\ pc' \in {"ino_watch", "ino_check", "ino_loop"} =>
         hash_lookup(ht', F', F'[i].wd) = i]_vars

\* The part about a re-registration by a directory event alone.
C36_ReRegisteredOwnsWatch ==
  [][\A i \in 1..n_files :
       Registers(i) /\ pc = "ino_loop" /\ pc' = "ino_loop" =>
         hash_lookup(ht', F', F'[i].wd) = i]_vars

\* The step dispatches a file event with IN_DELETE_SELF or IN_MOVE_SELF to
\* the target the map gives for its watch id.
SelfEvent ==
  /\ pc = "ino_loop" /\ budget' = budget
  /\ evq # <<>>
  /\ ino_wait = "event"
  /\ Head(evq).name = ""
  /\ Head(evq).mask \in {"DELETE_SELF", "MOVE_SELF"}
  /\ hash_lookup(ht, F, Head(evq).wd) # 0
  /\ \A k \in 1..Len(trace') : trace'[k].t = "diag" =>
                                  trace'[k].msg # "directory removed"

EventTarget == hash_lookup(ht, F, Head(evq).wd)

\* The dispatch calls recheck on the target and writes no data.
RechecksOnly ==
  /\ \E k \in 1..Len(trace') :
       trace'[k].t = "recheck" /\ trace'[k].i = EventTarget
  /\ \A k \in 1..Len(trace') : trace'[k].t # "data"

ReapedByKernel ==
  \E k \in 1..Len(evq') :
    evq'[k].wd = Head(evq).wd /\ evq'[k].mask = "DELETE_SELF"

NameEvent ==
  /\ pc = "ino_loop" /\ budget' = budget
  /\ evq # <<>>
  /\ ino_wait = "event"
  /\ follow_mode = "name"
  /\ ~HasIndeterminate
  /\ Head(evq).name # ""
  /\ Head(evq).mask \in {"CREATE", "MOVED_TO"}
  /\ DirMatch(F, Head(evq), FALSE) # 0

NamedTarget == DirMatch(F, Head(evq), FALSE)

\* The file the name of the event leads to.
NamedIno == dir[Head(evq).name].ino

\* A watch on the name can be installed, and the name leads to another file
\* than the one the target holds.
CanRebind ==
  /\ inotify_add_watch(kw, NamedIno).wd >= 0
  /\ ~IsOpen(fdt, F[NamedTarget].fd)
     \/ fdt[F[NamedTarget].fd].ino # NamedIno

\* The target is bound to the watch of the new file, the old watch id is
\* gone from the kernel, and the map gives the target for the new id.
Rebound ==
  /\ F'[NamedTarget].wd = WdOf(kw', NamedIno)
  /\ F'[NamedTarget].wd > 0
  /\ hash_lookup(ht', F', F'[NamedTarget].wd) = NamedTarget
  /\ F[NamedTarget].wd \in 1..Len(kw) /\ F[NamedTarget].wd # F'[NamedTarget].wd
       => kw'[F[NamedTarget].wd] = 0

\* The target holds the new file and has read all of it from offset 0.
AdoptedAndDrained ==
  /\ IsOpen(fdt', F'[NamedTarget].fd)
  /\ fdt'[F'[NamedTarget].fd].ino = NamedIno
  /\ F'[NamedTarget].ino = NamedIno
  /\ fdt'[F'[NamedTarget].fd].off = Len(inode[NamedIno].data)
  /\ F'[NamedTarget].size = Len(inode[NamedIno].data)
  /\ Len(inode[NamedIno].data) > 0 =>
       \E k \in 1..Len(trace') :
         /\ trace'[k].t = "data" /\ trace'[k].i = NamedTarget
         /\ trace'[k].ino = NamedIno /\ trace'[k].off = 0
         /\ trace'[k].bytes = inode[NamedIno].data

\* The name leads to a file that recheck accepts: of a tailable type, not
\* reached through a symbolic link, not on a remote file system.
NamedIsFollowable ==
  /\ ~IsSymlink(Head(evq).name)
  /\ IS_TAILABLE_FILE_TYPE(inode[NamedIno].kind)
  /\ ~inode[NamedIno].remote

\* C38: following by name with inotify, when a directory event reports the
\* name of a target created or moved in, a watch on it can be installed and
\* the name leads to a file recheck accepts, the same dispatch binds the
\* target to the new watch id (the old one removed from kernel and map),
\* recheck adopts the new file, and its content is drained from offset 0.
C38_FollowableIsReboundAdoptedDrained ==
  [][NameEvent /\ CanRebind /\ NamedIsFollowable /\ pc' = "ino_loop" =>
       Rebound /\ AdoptedAndDrained]_vars

\* Every fd field is -1 or names an open descriptor on the file recorded.
DescriptorsSound ==
  \A k \in 1..n_files :
    F[k].fd = -1 \/ (IsOpen(fdt, F[k].fd) /\ fdt[F[k].fd].ino = F[k].ino)

\* The same holds of every dispatch that starts with sound descriptors.
C38_ReboundWhenDescriptorsSound ==
  [][NameEvent /\ CanRebind /\ NamedIsFollowable /\ pc' = "ino_loop"
     /\ DescriptorsSound => Rebound /\ AdoptedAndDrained]_vars

\* C39: no assertion of the follow engine fails: valid_file_spec (f) at the
\* entry of recheck, f->fd == -1 where recheck reports "has become
\* accessible", fd == f[i].fd before the polling loop drains a changed file.
C39_NoAssertionFails == exitst # "abort"

\* recheck has reported a target accessible again, and the program runs on.
C39_BecameAccessible ==
  /\ exitst = "running"
  /\ \E k \in 1..Len(trace) :
       /\ trace[k].t = "rechecked" /\ trace[k].how = "accessible"
       /\ trace[k].now.fd # -1 /\ trace[k].now.errnum = 0
\* tail_lines called pipe_lines: on a pipe, or on a regular file whose
\* size is not beyond the starting offset.
RanPipeLinesOnAny ==
  /\ calc.fn = "tail" /\ calc.done /\ calc.count_lines /\ ~calc.from_start
  /\ ~(S_ISREG(calc.kind) /\ calc.start_pos < calc.end_pos)

\* C40: in pipe_lines the search for the first byte to print stays within
\* the bytes the chosen buffer holds: the number of delimiters it skips is
\* at most the number of delimiter bytes in that buffer, the count of the
\* last buffer having been incremented for a last line without delimiter;
\* for every input, every N and every split into reads (for N = 0 no
\* search is made).  What is written are bytes of the input, in order up
\* to its end.
C40_SearchStaysInBuffer ==
  RanPipeLinesOnAny =>
    /\ calc.out # Overrun
    /\ \A k \in 1..Len(calc.out) :
         calc.out[k] = Len(calc.d) - Len(calc.out) + k
    /\ Len(calc.out) <= Len(calc.d) - calc.start_pos

\* The search ran in the last buffer, which holds a delimiter and a last
\* line without one, and skipped the delimiter: N = 1 and the last read
\* brought both bytes.
C40_SkippedInLastBuffer ==
  /\ RanPipeLines
  /\ calc.n_units = 1
  /\ Len(calc.d) >= 3 /\ Len(calc.reads) >= 2
  /\ calc.reads[Len(calc.reads)] = 2
  /\ calc.d[Len(calc.d)] # line_end
  /\ calc.d[Len(calc.d) - 1] = line_end
  /\ calc.out = <<Len(calc.d)>>
====
